---- MODULE Spec2Model ----
(***************************************************************************)
(* Model of the document translator: the run-preserving redistribution of  *)
(* the two document adapters (pptx_processor.py, docx_processor.py) and    *)
(* the translation backend (translator.py): cache, skip rules, the         *)
(* parallel provider (googletrans) and the batch provider (DeepL).         *)
(*                                                                         *)
(* A text is a sequence of one-character strings.  The specifications      *)
(* share the variables; each one drives one part of the program and leaves *)
(* the variables of the other parts at their idle values:                  *)
(*   SpecRedistribute   _redistribute_text_to_runs of both adapters        *)
(*   SpecDeepl          Translator._batch_deepl, one loop iteration a step *)
(*   SpecGoogle         Translator._batch_googletrans, workers interleaved *)
(*   SpecTranslator     Translator.translate and Translator.translate_batch*)
(*   SpecFatal          the same, with the services' fatal failures noted  *)
(*   SpecRetry          Translator.translate, one remote attempt a step    *)
(*   SpecUnit           one paragraph from harvest to write-back           *)
(*   SpecProcess        process_file of both adapters, one unit a step     *)
(*   SpecSlide          PPTXProcessor._process_slide_batch                 *)
(*   SpecScope          the order of harvests, calls and write-backs in    *)
(*                      one slide (pptx) or one document (docx)            *)
(*   SpecWriteBack      the write-back of one slide's translate_batch      *)
(***************************************************************************)
EXTENDS Integers, Sequences, FiniteSets, TLC

VARIABLES
    \* --- redistribution (pptx_processor.py / docx_processor.py)
    r_adapter,      \* "pptx" or "docx": whose _redistribute_text_to_runs runs
    r_runs,         \* the text of each run (span) of the paragraph, in order
    r_orig,         \* original_texts handed to the call
    r_trans,        \* translated_text handed to the call
    r_cuts,         \* per non-final run the loop went through: the cursor
                    \* (pos), the proportional share (chars) and the cut
                    \* committed (end)
    r_pc,           \* "ready" before the call, "done" after it
    \* --- Translator._batch_deepl
    d_texts,        \* the argument texts
    d_bs,           \* the argument batch_size
    d_i,            \* the loop variable i (0-based offset of the next chunk)
    d_results,      \* the local list results
    d_requests,     \* every request posted so far: the list of texts it carried
    d_resps,        \* the provider's answer to each request, in order
    d_pc,           \* "loop" while chunks remain, "done" once results is returned
    \* --- Translator._batch_googletrans
    g_texts,        \* the argument texts
    g_results,      \* the local list results
    g_futures,      \* per item: the state of its future and what it holds
    g_called,       \* per item: the number of remote calls made for it
    g_order,        \* the items in the order as_completed yielded their futures
    g_pc,           \* "pool" inside the with-block, "done" once results is
                    \* returned, "raised" if an exception left the call
    \* --- Translator (translate, translate_batch)
    cache,          \* self._cache
    use_googletrans,\* self._use_googletrans
    gtrans,         \* self._gtrans: TRUE for a client handle, FALSE for None
    deepl_api_key,  \* TRUE when self.deepl_api_key is set
    translation_count, \* self._translation_count
    returned,       \* per text: what the latest translate(text) returned, or NoValue
    ncalls,         \* number of calls made on this Translator so far
    last,           \* the record of the latest call; hits: the texts of its
                    \* argument that were in the cache when it was made;
                    \* degraded: the texts whose remote call failed in it
    fatal,          \* the strategies whose service has reported a fatal
                    \* failure (quota exhausted, authentication rejected);
                    \* Untracked where the run does not look at this
    \* --- one text unit (a paragraph's runs) handled by an adapter
    u_site,         \* where the paragraph sits: shape, cell, notes (pptx),
                    \* body, table, header, footer (docx)
    u_runs,         \* the texts of the paragraph's runs, as they are now
    u_orig,         \* the texts the runs had when the adapter reached them
    u_recorded,     \* TRUE once the adapter recorded the unit for translation
    u_translated,   \* what the Translator returned for the unit, or NoValue
    u_pc,           \* "harvest", "translate", "apply", "done"
    \* --- process_file of an adapter
    p_kind,         \* "pptx" or "docx"
    p_units,        \* the document's content units in traversal order, each
                    \* with what happens when it is processed
    p_i,            \* number of units the traversal has left behind
    p_visited,      \* the units whose processing was started
    p_stats,        \* self.stats: the counters and the errors list
    p_saves,        \* number of calls of save(output_path)
    p_pc,           \* "load", "traverse", "returned", or "raised:" and the
                    \* place the exception came from
    \* --- PPTXProcessor._process_slide_batch
    s_shapes,       \* slide.shapes: the slide's shape trees
    s_notes,        \* the slide's notes: "none", "text" or "raises"
    s_i,            \* number of top-level shapes already collected
    s_locations,    \* text_locations: the path of each harvested paragraph
    s_stats,        \* the counters of self.stats the slide touches
    s_batches,      \* the argument of each translate_batch call
    s_pc,           \* "shapes", "notes", "batch", "done"
    \* --- one call of translate, one remote attempt per step
    a_text,         \* the argument text
    a_cached,       \* TRUE when self._cache holds the text
    a_ug,           \* self._use_googletrans and self._gtrans
    a_key,          \* self.deepl_api_key is set
    a_max,          \* the argument max_retries
    a_attempt,      \* the loop variable attempt of the running provider loop
    a_gcalls,       \* remote calls made to googletrans
    a_dcalls,       \* requests posted to DeepL
    a_reinits,      \* times the googletrans handle was rebuilt
    a_result,       \* the value returned, NoValue before the return
    a_pc,           \* "entry", "primary", "secondary", "returned"
    \* --- one batch scope of an adapter: a slide, or a whole document
    b_kind,         \* "pptx" or "docx"
    b_units,        \* the scope's paragraphs in traversal order: "text" passes
                    \* the harvest test, "blank" does not
    b_i,            \* number of paragraphs the running loop has left behind
    b_locs,         \* text_locations: the paragraphs recorded so far (pptx)
    b_log,          \* the harvests, Translator calls and write-backs so far
    b_pc,           \* "harvest", "translate", "apply", "done"
    \* --- the write-back of one slide's batch (pptx)
    w_ug,           \* the Translator's use_googletrans (and live handle)
    w_key,          \* whether the Translator has a DeepL key
    w_orig,         \* text_locations: per harvested unit its original_texts
    w_runs,         \* per harvested unit the text of its runs now
    w_translated,   \* translated_texts, once translate_batch has returned
    w_j,            \* number of pairs the zip loop has left behind
    w_redist,       \* per harvested unit how often it was redistributed
    w_pc            \* "collected", "apply", "done"

rvars == <<r_adapter, r_runs, r_orig, r_trans, r_cuts, r_pc>>
dvars == <<d_texts, d_bs, d_i, d_results, d_requests, d_resps, d_pc>>
gvars == <<g_texts, g_results, g_futures, g_called, g_order, g_pc>>
tvars == <<cache, use_googletrans, gtrans, deepl_api_key, translation_count,
           returned, ncalls, last, fatal>>
uvars == <<u_site, u_runs, u_orig, u_recorded, u_translated, u_pc>>
\* the parts added to the four above
pvars == <<p_kind, p_units, p_i, p_visited, p_stats, p_saves, p_pc>>
svars == <<s_shapes, s_notes, s_i, s_locations, s_stats, s_batches, s_pc>>
avars == <<a_text, a_cached, a_ug, a_key, a_max, a_attempt, a_gcalls, a_dcalls,
           a_reinits, a_result, a_pc>>
bvars == <<b_kind, b_units, b_i, b_locs, b_log, b_pc>>
wvars == <<w_ug, w_key, w_orig, w_runs, w_translated, w_j, w_redist, w_pc>>
xvars == <<uvars, pvars, svars, avars, bvars, wvars>>
vars == <<rvars, dvars, gvars, tvars, xvars>>

(***************************************************************************)
(* Python's str and list operations, on sequences (0-based indices as in   *)
(* the source, converted at the SubSeq boundary).                          *)
(***************************************************************************)
Min(a, b) == IF a < b THEN a ELSE b

\* s[a:b] for 0 <= a, 0 <= b: the slice is clamped to the string, never raises.
Slice(s, a, b) == SubSeq(s, a + 1, Min(b, Len(s)))

\* s[a:]
SliceFrom(s, a) == SubSeq(s, a + 1, Len(s))

\* s.rfind(c, a, b): the highest index k with a <= k < min(b, len(s)) and
\* s[k] = c, or -1.
RFind(s, c, a, b) ==
    LET hits == {k \in a..(Min(b, Len(s)) - 1) : s[k + 1] = c}
    IN  IF hits = {} THEN -1 ELSE CHOOSE k \in hits : \A j \in hits : j <= k

\* ''.join(list of texts)
RECURSIVE Join(_)
Join(ts) == IF ts = <<>> THEN <<>> ELSE Head(ts) \o Join(Tail(ts))

\* sum(len(t) for t in ts)
RECURSIVE SumLen(_)
SumLen(ts) == IF ts = <<>> THEN 0 ELSE Len(Head(ts)) + SumLen(Tail(ts))

\* All sequences over S of length 0..n.
SeqsUpTo(S, n) == UNION {[1..k -> S] : k \in 0..n}

(***************************************************************************)
(* Redistribution: PPTXProcessor._redistribute_text_to_runs and            *)
(* DOCXProcessor._redistribute_text_to_runs.                               *)
(***************************************************************************)
\* The look-ahead of the word-boundary search: rfind(' ', pos, end + 10).
WordWindow == 10

\* A share rounded to the nearest integer (halves upwards).
ProportionalCharsRounded(trans_len, orig_len, total_len) ==
    (2 * trans_len * orig_len + total_len) \div (2 * total_len)

\* chars = int(trans_len * (len(orig) / total_len)).  The quotient is a
\* double; for total_len <= 21 and trans_len <= 39 the truncated product
\* equals the integer quotient below (the first difference is
\* int(22 * (15 / 22)) = 14), and the lengths examined here stay below that.
ProportionalChars(trans_len, orig_len, total_len) ==
    (trans_len * orig_len) \div total_len

\* A correction that looks forward from the proportional cut and takes the
\* first space of the next WordWindow characters.
CutEndFirstSpace(translated, pos, chars) ==
    LET end == pos + chars
        hits == {k \in end..(Min(end + WordWindow, Len(translated)) - 1) :
                    translated[k + 1] = " "}
    IN  IF hits = {} THEN end
        ELSE (CHOOSE k \in hits : \A j \in hits : k <= j) + 1

\* The end of the slice of a non-final run: the proportional cut, replaced by
\* the position after the space rfind returns when that space lies after pos.
CutEnd(translated, pos, chars) ==
    LET end == pos + chars
        space == RFind(translated, " ", pos, end + WordWindow)
    IN  IF end < Len(translated) /\ space > pos THEN space + 1 ELSE end

\* A loop that advances the cursor by the proportional share only, and not
\* to the corrected end of the slice it has just assigned.
RECURSIVE RedistributeLoopStaleCursor(_, _, _, _, _)
RedistributeLoopStaleCursor(runs, original_texts, translated, i, pos) ==
    IF i > Len(runs) THEN runs
    ELSE IF i = Len(runs)
         THEN [runs EXCEPT ![i] = SliceFrom(translated, pos)]
    ELSE LET chars == ProportionalChars(Len(translated), Len(original_texts[i]),
                                        SumLen(original_texts))
             end == CutEnd(translated, pos, chars)
         IN  RedistributeLoopStaleCursor(
                 [runs EXCEPT ![i] = Slice(translated, pos, end)],
                 original_texts, translated, i + 1, pos + chars)

\* for i, (run, orig) in enumerate(zip(runs, original_texts)): ...
\* i is 1-based here; pos is the running cursor.  The loop text of the two
\* adapters is the same up to the names of the locals.
RECURSIVE RedistributeLoop(_, _, _, _, _)
RedistributeLoop(runs, original_texts, translated, i, pos) ==
    IF i > Len(runs) THEN runs
    ELSE IF i = Len(runs)
         THEN [runs EXCEPT ![i] = SliceFrom(translated, pos)]
    ELSE LET chars == ProportionalChars(Len(translated), Len(original_texts[i]),
                                        SumLen(original_texts))
             end == CutEnd(translated, pos, chars)
         IN  RedistributeLoop(
                 [runs EXCEPT ![i] = Slice(translated, pos, end)],
                 original_texts, translated, i + 1, end)

\* The locals of the same loop at each non-final run: current_pos before
\* the run, chars_for_run, and end_pos as assigned to current_pos after it.
RECURSIVE CutTrace(_, _, _, _)
CutTrace(original_texts, translated, i, pos) ==
    IF i >= Len(original_texts) THEN <<>>
    ELSE LET chars == ProportionalChars(Len(translated), Len(original_texts[i]),
                                        SumLen(original_texts))
             end == CutEnd(translated, pos, chars)
         IN  <<[pos |-> pos, chars |-> chars, end |-> end]>>
             \o CutTrace(original_texts, translated, i + 1, end)

\* PPTXProcessor._redistribute_text_to_runs
PptxRedistribute(runs, original_texts, translated_text) ==
    IF SumLen(original_texts) = 0
    THEN IF runs # <<>> THEN [runs EXCEPT ![1] = translated_text] ELSE runs
    ELSE RedistributeLoop(runs, original_texts, translated_text, 1, 0)

\* DOCXProcessor._redistribute_text_to_runs
DocxRedistribute(runs, original_texts, translated_text) ==
    IF SumLen(original_texts) = 0
    THEN IF runs # <<>> THEN [runs EXCEPT ![1] = translated_text] ELSE runs
    ELSE RedistributeLoop(runs, original_texts, translated_text, 1, 0)

\* ---- bounds of the redistribution inputs
MaxRuns == 3
MaxOrigLen == 2
MaxTransLen == 11
MaxSpaces == 2

NumSpaces(s) == Cardinality({k \in 1..Len(s) : s[k] = " "})

\* The texts of the runs before translation: letters only, possibly empty.
OrigTexts == SeqsUpTo({"a"}, MaxOrigLen)

\* A paragraph is harvested only with a non-empty run list
\* (pptx_processor.py:121, docx_processor.py:73).
RunLists == SeqsUpTo(OrigTexts, MaxRuns) \ {<<>>}

\* Translated strings: words of "a" separated by at most MaxSpaces spaces.
TransTexts == {s \in SeqsUpTo({"a", " "}, MaxTransLen) : NumSpaces(s) <= MaxSpaces}

(***************************************************************************)
(* The remote services.  What a provider answers is the environment's      *)
(* choice; Tr(t) stands for the provider's translation of t, so that a     *)
(* result can be told from the result of another text.                     *)
(***************************************************************************)
Tr(t) == <<"T">> \o t

(***************************************************************************)
(* Translator._batch_deepl                                                 *)
(***************************************************************************)
\* _batch_deepl's default batch_size.
DeeplBatchSize == 50

\* One entry of data['translations']: a dict holding 'text' (the translation
\* of the text at the same position of the request), a dict without 'text',
\* or something that is no dict (item.get raises AttributeError).
ItemKinds == {"tr", "notext", "bad"}

\* What httpx.post / response.json() yield for a request of k texts:
\*   exc     the call or the decoding raises (timeout, connection, bad JSON)
\*   status  a status code other than 200
\*   ok      status 200 with a list of items.  Items after index k are never
\*           read (the read of batch[k] raises first), so one extra item
\*           stands for any number of them.
DeeplResponses(k) ==
    {[kind |-> "exc", items |-> <<>>], [kind |-> "status", items |-> <<>>]}
    \cup {[kind |-> "ok", items |-> it] : it \in SeqsUpTo(ItemKinds, k + 1)}

\* for j, item in enumerate(translations):
\*     results.append(item.get('text', batch[j]))
\* j is 1-based here.  The default batch[j] is evaluated at every item, so an
\* item past the end of the batch raises IndexError; a non-dict item raises
\* AttributeError.  Either leaves the loop with what was appended so far.
RECURSIVE AppendItems(_, _, _, _)
AppendItems(results, batch, items, j) ==
    IF j > Len(items) THEN [results |-> results, raised |-> FALSE]
    ELSE IF items[j] = "bad" \/ j > Len(batch)
         THEN [results |-> results, raised |-> TRUE]
    ELSE AppendItems(
             Append(results, IF items[j] = "tr" THEN Tr(batch[j]) ELSE batch[j]),
             batch, items, j + 1)

\* while len(results) < i + len(batch):
\*     results.append(batch[len(results) - i])
RECURSIVE FillMissing(_, _, _)
FillMissing(results, batch, i) ==
    IF Len(results) < i + Len(batch)
    THEN FillMissing(Append(results, batch[Len(results) - i + 1]), batch, i)
    ELSE results

\* A chunk that extends results by the batch alone when reading the response
\* raises, dropping what the loop had appended before the exception.  This is
\* not what the code does (see DeeplChunk); no specification uses it.  It
\* serves to tell apart the failures that stem from the partial appends.
DeeplChunkAtomic(results, i, batch, resp) ==
    IF resp.kind \in {"exc", "status"} THEN results \o batch
    ELSE LET a == AppendItems(results, batch, resp.items, 1)
         IN  IF a.raised THEN results \o batch
             ELSE FillMissing(a.results, batch, i)

\* The body of the try/except of one loop iteration: results after the chunk
\* at offset i, whose request carried batch and was answered by resp.
DeeplChunk(results, i, batch, resp) ==
    IF resp.kind = "exc" THEN results \o batch
    ELSE IF resp.kind = "status" THEN results \o batch
    ELSE LET a == AppendItems(results, batch, resp.items, 1)
         IN  IF a.raised THEN a.results \o batch
             ELSE FillMissing(a.results, batch, i)

\* A loop that stays on a chunk whose request failed and posts it again.
DeeplNextOffsetRetry(i, batch_size, resp) ==
    IF resp.kind \in {"exc", "status"} THEN i ELSE i + batch_size

\* for i in range(0, len(texts), batch_size): the offset of the next chunk.
\* The loop moves on whatever the answer to the chunk was.
DeeplNextOffset(i, batch_size, resp) == i + batch_size

\* batch = texts[i:i+batch_size]
DeeplWindow(texts, i, batch_size) == Slice(texts, i, i + batch_size)

\* The whole call, given the provider's answer to each chunk in order:
\* for i in range(0, len(texts), batch_size): ...; return results
RECURSIVE BatchDeeplFrom(_, _, _, _, _)
BatchDeeplFrom(texts, batch_size, resps, i, results) ==
    IF i >= Len(texts) THEN results
    ELSE BatchDeeplFrom(texts, batch_size, Tail(resps),
             DeeplNextOffset(i, batch_size, Head(resps)),
             DeeplChunk(results, i, DeeplWindow(texts, i, batch_size), Head(resps)))

BatchDeepl(texts, batch_size, resps) ==
    BatchDeeplFrom(texts, batch_size, resps, 0, <<>>)

(***************************************************************************)
(* Translator._batch_googletrans                                           *)
(***************************************************************************)
\* ThreadPoolExecutor(max_workers=10)
MaxWorkers == 10

\* What self._gtrans.translate(text, dest=...) yields:
\*   exc    it raises
\*   none   it returns a falsy result
\*   empty  it returns a result whose text is empty
\*   same   it returns the text it was given
\*   tr     it returns the translation
GoogleOutcomes == {"exc", "none", "empty", "same", "tr"}

\* result.text of a result that has one.
GoogleText(text, outcome) == IF outcome = "tr" THEN Tr(text) ELSE text

\* translate_one without its try/except: the exception of the remote call
\* reaches the future.
TranslateOneUncaught(idx, text, outcome) ==
    IF outcome = "exc"
    THEN [raised |-> TRUE, idx |-> idx, value |-> <<>>]
    ELSE [raised |-> FALSE, idx |-> idx,
          value |-> IF outcome \in {"same", "tr"}
                    THEN GoogleText(text, outcome) ELSE text]

\* translate_one((idx, text)): what the future holds when the worker ends.
TranslateOne(idx, text, outcome) ==
    IF outcome = "exc"
    THEN [raised |-> FALSE, idx |-> idx, value |-> text]
    ELSE [raised |-> FALSE, idx |-> idx,
          value |-> IF outcome \in {"same", "tr"}
                    THEN GoogleText(text, outcome) ELSE text]

\* A collection loop that stores each result in the first slot still holding
\* its initial '', that is, in order of completion.
CollectFutureByArrival(results, fut) ==
    IF fut.raised \/ \A k \in 1..Len(results) : results[k] # <<>>
    THEN results
    ELSE LET k == CHOOSE q \in 1..Len(results) :
                      /\ results[q] = <<>>
                      /\ \A p \in 1..(q - 1) : results[p] # <<>>
         IN  [results EXCEPT ![k] = fut.value]

\* The body of the as_completed loop for one future:
\*     try: idx, translated = future.result(); results[idx] = translated
\*     except Exception: logger.error(...)
\* idx is 0-based in the source.
CollectFuture(results, fut) ==
    IF fut.raised THEN results
    ELSE [results EXCEPT ![fut.idx + 1] = fut.value]

\* The list _batch_googletrans returns when item i's remote call ends with
\* outcomes[i]: every future is collected before the with-block is left, and
\* each writes its own slot, so the order of completion does not show.
BatchGoogletrans(texts, outcomes) ==
    [i \in 1..Len(texts) |->
        LET fut == TranslateOne(i - 1, texts[i], outcomes[i])
        IN  IF fut.raised THEN <<>> ELSE fut.value]

\* ---- bounds of the _batch_googletrans inputs
MaxGoogleTexts == 3

\* ---- bounds of the _batch_deepl inputs
MaxDeeplTexts == 4
MaxChunk == 2

\* Distinct texts, so that a result at the wrong position shows.
Letters == <<"a", "b", "c", "d", "e", "f", "g", "h">>
SampleText(k) == <<Letters[k], Letters[k]>>
SampleTexts(n) == [k \in 1..n |-> SampleText(k)]

(***************************************************************************)
(* Translator: skip rules, cache, translate, translate_batch               *)
(***************************************************************************)
\* Characters str.strip() removes (of those that occur in the texts below).
Whitespace == {" ", "\n", "\t", "\r"}

Digits == {"0", "1", "2", "3", "4", "5", "6", "7", "8", "9"}

\* text.strip()
RECURSIVE LStrip(_)
LStrip(s) ==
    IF s # <<>> /\ Head(s) \in Whitespace THEN LStrip(Tail(s)) ELSE s

RECURSIVE RStrip(_)
RStrip(s) ==
    IF s # <<>> /\ s[Len(s)] \in Whitespace
    THEN RStrip(SubSeq(s, 1, Len(s) - 1)) ELSE s

Strip(s) == RStrip(LStrip(s))

\* s.replace(c, '')
Remove(s, c) == SelectSeq(s, LAMBDA x : x # c)

\* s.isnumeric(): non-empty and numeric characters only.
IsNumeric(s) == s # <<>> /\ \A k \in 1..Len(s) : s[k] \in Digits

\* Python truthiness of an Optional[str]: neither None nor ''.
NoValue == <<"None">>
Truthy(v) == v # NoValue /\ v # <<>>

\* The early returns of translate (lines 69-76).
SkipTranslate(text) ==
    \/ ~Truthy(text) \/ ~Truthy(Strip(text))
    \/ Len(Strip(text)) < 2
    \/ IsNumeric(Remove(Remove(Remove(Strip(text), " "), "\n"), "\t"))

\* The first branch of translate_batch's partition (line 114).
SkipBatch(text) ==
    ~Truthy(text) \/ ~Truthy(Strip(text)) \/ Len(Strip(text)) < 2

\* translate's default max_retries.
DefaultMaxRetries == 2

\* A store that is forgotten.
CacheStoreDropped(c, key, value) == c

\* self._cache[key] = value
CacheStore(c, key, value) ==
    [k \in DOMAIN c \cup {key} |-> IF k = key THEN value ELSE c[k]]

\* The remote attempts of one call, as far as the loop gets: every attempt but
\* the last failed, and a trace shorter than max_retries ends in a success.
AttemptTraces(failures, successes, max_retries) ==
    {tr \in SeqsUpTo(failures \cup successes, max_retries) :
        /\ \A j \in 1..(Len(tr) - 1) : tr[j] \in failures
        /\ Len(tr) < max_retries => (tr # <<>> /\ tr[Len(tr)] \in successes)}

GoogleTraces(max_retries) ==
    AttemptTraces({"exc", "none", "empty"}, {"same", "tr"}, max_retries)

\* _translate_googletrans: attempt is 0-based as in the source.  Returns the
\* value (NoValue for None), the remote calls made and the number of times
\* the client handle was rebuilt.  Every exception of the remote call is
\* caught inside the loop.
RECURSIVE GoogletransLoop(_, _, _, _, _, _)
GoogletransLoop(text, max_retries, trace, attempt, calls, reinits) ==
    IF attempt >= max_retries
    THEN [value |-> NoValue, calls |-> calls, reinits |-> reinits, raised |-> FALSE]
    ELSE LET o == trace[attempt + 1]
         IN  IF o \in {"same", "tr"}
             THEN [value |-> GoogleText(text, o), calls |-> calls + 1,
                   reinits |-> reinits, raised |-> FALSE]
             ELSE GoogletransLoop(text, max_retries, trace, attempt + 1, calls + 1,
                      IF o = "exc" /\ attempt < max_retries - 1
                      THEN reinits + 1 ELSE reinits)

TranslateGoogletrans(text, max_retries, trace) ==
    GoogletransLoop(text, max_retries, trace, 0, 0, 0)

\* What one request of _translate_deepl yields:
\*   exc        the call or the reading of the body raises
\*   429        rate limited
\*   status     another status that is not 200
\*   notrans    200 without translations
\*   tr, same, emptytext   200 with translations[0]['text'] the translation,
\*                         the text itself, or ''
DeeplFailures == {"exc", "429", "status", "notrans"}
DeeplSuccesses == {"tr", "same", "emptytext"}
DeeplTraces(max_retries) == AttemptTraces(DeeplFailures, DeeplSuccesses, max_retries)

DeeplText(text, o) ==
    IF o = "tr" THEN Tr(text) ELSE IF o = "same" THEN text ELSE <<>>

\* _translate_deepl
RECURSIVE DeeplLoop(_, _, _, _, _)
DeeplLoop(text, max_retries, trace, attempt, calls) ==
    IF attempt >= max_retries
    THEN [value |-> NoValue, calls |-> calls, raised |-> FALSE]
    ELSE LET o == trace[attempt + 1]
         IN  IF o \in DeeplSuccesses
             THEN [value |-> DeeplText(text, o), calls |-> calls + 1, raised |-> FALSE]
             ELSE DeeplLoop(text, max_retries, trace, attempt + 1, calls + 1)

TranslateDeepl(text, max_retries, trace) == DeeplLoop(text, max_retries, trace, 0, 0)

\* The test of the primary result in translate: if result and result != text
GoogleUsable(result, text) == Truthy(result) /\ result # text

\* A fallback that returns whatever the secondary strategy gave.
DeeplUsableUnchecked(result) == TRUE

\* The test of the secondary result in translate: if result
DeeplUsable(result) == Truthy(result)

NotCalled == <<"not called">>

\* translate(text, max_retries) on a Translator in state (c, count, ug, gt,
\* key), the primary provider answering gtrace and the secondary dtrace.
\* Yields the returned value, the new cache and counter, and a record of what
\* the call did; source names the return statement taken: a skip rule, the
\* cache, the primary or the secondary result, or none (the final return).
TranslateCall(text, max_retries, gtrace, dtrace, c, count, ug, gt, key) ==
    LET base == [result |-> text, cache |-> c, count |-> count,
                 source |-> "skip", gvalue |-> NotCalled, dvalue |-> NotCalled,
                 gcalls |-> 0, dcalls |-> 0, reinits |-> 0, raised |-> FALSE]
    IN  IF SkipTranslate(text) THEN base
        ELSE IF text \in DOMAIN c
        THEN [base EXCEPT !.result = c[text], !.source = "cache"]
        ELSE
        LET tryG == ug /\ gt
            g == IF tryG THEN TranslateGoogletrans(text, max_retries, gtrace)
                 ELSE [value |-> NotCalled, calls |-> 0, reinits |-> 0, raised |-> FALSE]
            b1 == [base EXCEPT !.source = "none", !.gvalue = g.value,
                               !.gcalls = g.calls, !.reinits = g.reinits]
        IN  IF g.raised THEN [b1 EXCEPT !.result = NoValue, !.raised = TRUE]
            ELSE IF tryG /\ GoogleUsable(g.value, text)
            THEN [b1 EXCEPT !.result = g.value, !.source = "primary",
                            !.cache = CacheStore(c, text, g.value),
                            !.count = count + 1]
            ELSE
            LET d == IF key THEN TranslateDeepl(text, max_retries, dtrace)
                     ELSE [value |-> NotCalled, calls |-> 0, raised |-> FALSE]
                b2 == [b1 EXCEPT !.dvalue = d.value, !.dcalls = d.calls]
            IN  IF d.raised THEN [b2 EXCEPT !.result = NoValue, !.raised = TRUE]
                ELSE IF key /\ DeeplUsable(d.value)
                THEN [b2 EXCEPT !.result = d.value, !.source = "secondary",
                                !.cache = CacheStore(c, text, d.value),
                                !.count = count + 1]
                ELSE b2

\* A partition that keeps one position of every string.
RECURSIVE ToTranslateOnce(_, _, _)
ToTranslateOnce(texts, c, i) ==
    IF i > Len(texts) THEN <<>>
    ELSE IF \/ SkipBatch(texts[i]) \/ texts[i] \in DOMAIN c
            \/ \E k \in 1..(i - 1) : texts[k] = texts[i]
         THEN ToTranslateOnce(texts, c, i + 1)
    ELSE <<i>> \o ToTranslateOnce(texts, c, i + 1)

\* to_translate of translate_batch, as the list of (1-based) indices: the
\* items that are neither skipped nor cached, in input order.
RECURSIVE ToTranslate(_, _, _)
ToTranslate(texts, c, i) ==
    IF i > Len(texts) THEN <<>>
    ELSE IF SkipBatch(texts[i]) \/ texts[i] \in DOMAIN c
         THEN ToTranslate(texts, c, i + 1)
    ELSE <<i>> \o ToTranslate(texts, c, i + 1)

\* results after the partition loop: '' where a translation is still needed.
Partitioned(texts, c) ==
    [i \in 1..Len(texts) |->
        IF SkipBatch(texts[i]) THEN texts[i]
        ELSE IF texts[i] \in DOMAIN c THEN c[texts[i]] ELSE <<>>]

\* for (idx, orig), trans in zip(to_translate, translated):
\*     results[idx] = trans; self._cache[orig] = trans
\* zip stops at the shorter of the two lists.
RECURSIVE ZipApply(_, _, _, _, _, _)
ZipApply(results, c, texts, todo, translated, j) ==
    IF j > Len(todo) \/ j > Len(translated)
    THEN [results |-> results, cache |-> c]
    ELSE ZipApply([results EXCEPT ![todo[j]] = translated[j]],
                  CacheStore(c, texts[todo[j]], translated[j]),
                  texts, todo, translated, j + 1)

\* The answers of the batch provider to the chunks of n texts.
DeeplAnswerSeqs(n, batch_size) ==
    LET nchunks == (n + batch_size - 1) \div batch_size
        size(j) == Min(batch_size, n - (j - 1) * batch_size)
    IN  {rs \in [1..nchunks -> DeeplResponses(Min(batch_size, n))] :
            \A j \in 1..nchunks : rs[j] \in DeeplResponses(size(j))}

\* translate_batch(texts) on a Translator in state (c, count, ug, gt, key);
\* outcomes answers the items of the parallel provider, resps the chunks of
\* the batch provider.
TranslateBatchCall(texts, outcomes, resps, c, count, ug, gt, key) ==
    LET todo == ToTranslate(texts, c, 1)
        pending == [j \in 1..Len(todo) |-> texts[todo[j]]]
        part == Partitioned(texts, c)
        base == [result |-> texts, cache |-> c, count |-> count,
                 sent |-> <<>>, gcalls |-> 0, dcalls |-> 0, raised |-> FALSE]
    IN  IF texts = <<>> THEN base
        ELSE IF todo = <<>> THEN [base EXCEPT !.result = part]
        ELSE IF ug /\ gt
        THEN LET z == ZipApply(part, c, texts, todo,
                               BatchGoogletrans(pending, outcomes), 1)
             IN  [base EXCEPT !.result = z.results, !.cache = z.cache,
                              !.count = count + Len(todo),
                              !.sent = pending, !.gcalls = Len(pending)]
        ELSE IF key
        THEN LET z == ZipApply(part, c, texts, todo,
                               BatchDeepl(pending, DeeplBatchSize, resps), 1)
             IN  [base EXCEPT !.result = z.results, !.cache = z.cache,
                              !.count = count + Len(todo),
                              !.sent = pending, !.dcalls = Len(resps)]
        ELSE [base EXCEPT !.result = [i \in 1..Len(texts) |->
                                         IF part[i] = <<>> /\ ~SkipBatch(texts[i])
                                            /\ texts[i] \notin DOMAIN c
                                         THEN texts[i] ELSE part[i]],
                          !.count = count + Len(todo)]

\* ---- the texts and bounds of the Translator runs
MaxCalls == 2

TEmpty == <<>>
TNum == <<"1", "2">>
TAb == <<"a", "b">>
TCd == <<"c", "d">>

\* The arguments of translate: one text of every kind the skip rules tell
\* apart, and an ordinary text.
Texts ==
    { TEmpty,               \* ''
      <<" ">>,              \* whitespace only
      <<"a">>,              \* one character
      TNum,                 \* digits
      <<"1", " ", "2">>,    \* digits around a space
      <<"1", "\r", "2">>,   \* digits around a carriage return
      TAb }

\* The arguments of translate_batch: the empty list, lists of skipped items
\* only, numeric items, repeated items, and up to three items to translate.
BatchInputs ==
    { <<>>, <<TEmpty>>, <<TNum>>, <<TAb>>,
      <<TAb, TCd>>, <<TAb, TAb>>, <<TEmpty, TAb>>, <<TNum, TAb>>,
      <<TAb, TNum, TCd>> }

(***************************************************************************)
(* The specifications.  Each leaves the other parts idle.                   *)
(***************************************************************************)
RIdle ==
    /\ r_adapter = "none" /\ r_runs = <<>> /\ r_orig = <<>>
    /\ r_trans = <<>> /\ r_cuts = <<>> /\ r_pc = "idle"

DIdle ==
    /\ d_texts = <<>> /\ d_bs = 0 /\ d_i = 0 /\ d_results = <<>>
    /\ d_requests = <<>> /\ d_resps = <<>> /\ d_pc = "idle"

GIdle ==
    /\ g_texts = <<>> /\ g_results = <<>> /\ g_futures = <<>>
    /\ g_called = <<>> /\ g_order = <<>> /\ g_pc = "idle"

TIdle ==
    /\ cache = <<>> /\ use_googletrans = FALSE /\ gtrans = FALSE
    /\ deepl_api_key = FALSE /\ translation_count = 0
    /\ returned = <<>> /\ ncalls = 0 /\ last = <<>> /\ fatal = {}

UIdle ==
    /\ u_site = "none" /\ u_runs = <<>> /\ u_orig = <<>> /\ u_recorded = FALSE
    /\ u_translated = <<>> /\ u_pc = "idle"

PIdle ==
    /\ p_kind = "none" /\ p_units = <<>> /\ p_i = 0 /\ p_visited = {}
    /\ p_stats = <<>> /\ p_saves = 0 /\ p_pc = "idle"

SIdle ==
    /\ s_shapes = <<>> /\ s_notes = "none" /\ s_i = 0 /\ s_locations = <<>>
    /\ s_stats = <<>> /\ s_batches = <<>> /\ s_pc = "idle"

AIdle ==
    /\ a_text = <<>> /\ a_cached = FALSE /\ a_ug = FALSE /\ a_key = FALSE
    /\ a_max = 0 /\ a_attempt = 0 /\ a_gcalls = 0 /\ a_dcalls = 0
    /\ a_reinits = 0 /\ a_result = <<>> /\ a_pc = "idle"

BIdle ==
    /\ b_kind = "none" /\ b_units = <<>> /\ b_i = 0 /\ b_locs = <<>>
    /\ b_log = <<>> /\ b_pc = "idle"

WIdle ==
    /\ w_ug = FALSE /\ w_key = FALSE /\ w_orig = <<>> /\ w_runs = <<>>
    /\ w_translated = <<>> /\ w_j = 0 /\ w_redist = <<>> /\ w_pc = "idle"

XIdle == UIdle /\ PIdle /\ SIdle /\ AIdle /\ BIdle /\ WIdle

\* The state at the call: the runs hold the texts original_texts was read from.
InitRedistribute ==
    /\ r_adapter \in {"pptx", "docx"}
    /\ r_orig \in RunLists
    /\ r_runs = r_orig
    /\ r_trans \in TransTexts
    /\ r_cuts = <<>>
    /\ r_pc = "ready"
    /\ DIdle /\ GIdle /\ TIdle /\ XIdle

Redistribute ==
    /\ r_pc = "ready"
    /\ r_runs' = IF r_adapter = "pptx"
                 THEN PptxRedistribute(r_runs, r_orig, r_trans)
                 ELSE DocxRedistribute(r_runs, r_orig, r_trans)
    /\ r_cuts' = IF SumLen(r_orig) = 0 THEN <<>>
                 ELSE CutTrace(r_orig, r_trans, 1, 0)
    /\ r_pc' = "done"
    /\ UNCHANGED <<r_adapter, r_orig, r_trans, dvars, gvars, tvars, xvars>>

NextRedistribute == Redistribute

SpecRedistribute == InitRedistribute /\ [][NextRedistribute]_vars

(***************************************************************************)
(* SpecDeepl: one call of _batch_deepl, one loop iteration per step.       *)
(***************************************************************************)
InitDeepl ==
    /\ \E n \in 1..MaxDeeplTexts : d_texts = SampleTexts(n)
    /\ d_bs \in 1..MaxChunk
    /\ d_i = 0
    /\ d_results = <<>>
    /\ d_requests = <<>>
    /\ d_resps = <<>>
    /\ d_pc = "loop"
    /\ RIdle /\ GIdle /\ TIdle /\ XIdle

\* One iteration of the for loop: post the chunk, read the answer.
DeeplIteration ==
    /\ d_pc = "loop"
    /\ d_i < Len(d_texts)
    /\ LET batch == DeeplWindow(d_texts, d_i, d_bs)
       IN  \E resp \in DeeplResponses(Len(batch)) :
             /\ d_requests' = Append(d_requests, batch)
             /\ d_resps' = Append(d_resps, resp)
             /\ d_results' = DeeplChunk(d_results, d_i, batch, resp)
             /\ d_i' = DeeplNextOffset(d_i, d_bs, resp)
    /\ UNCHANGED <<d_texts, d_bs, d_pc, rvars, gvars, tvars, xvars>>

\* The range is exhausted: return results.
DeeplReturn ==
    /\ d_pc = "loop"
    /\ d_i >= Len(d_texts)
    /\ d_pc' = "done"
    /\ UNCHANGED <<d_texts, d_bs, d_i, d_results, d_requests, d_resps,
                   rvars, gvars, tvars, xvars>>

NextDeepl == DeeplIteration \/ DeeplReturn

SpecDeepl == InitDeepl /\ [][NextDeepl]_vars

(***************************************************************************)
(* SpecGoogle: one call of _batch_googletrans.  Every item is submitted    *)
(* before the first future is awaited; the pool runs at most MaxWorkers    *)
(* items at a time, taking them from its queue in submission order; the    *)
(* caller collects finished futures in whatever order they complete.       *)
(***************************************************************************)
NoFuture == [raised |-> FALSE, idx |-> -1, value |-> <<>>]

InitGoogle ==
    /\ \E n \in 1..MaxGoogleTexts : g_texts = SampleTexts(n)
    /\ g_results = [i \in 1..Len(g_texts) |-> <<>>]
    /\ g_futures = [i \in 1..Len(g_texts) |->
                       [state |-> "queued", outcome |-> "-", fut |-> NoFuture]]
    /\ g_called = [i \in 1..Len(g_texts) |-> 0]
    /\ g_order = <<>>
    /\ g_pc = "pool"
    /\ RIdle /\ DIdle /\ TIdle /\ XIdle

Running == {i \in 1..Len(g_texts) : g_futures[i].state = "running"}

\* A free worker takes the next queued item.
GoogleStart(i) ==
    /\ g_pc = "pool"
    /\ g_futures[i].state = "queued"
    /\ \A j \in 1..(i - 1) : g_futures[j].state # "queued"
    /\ Cardinality(Running) < MaxWorkers
    /\ g_futures' = [g_futures EXCEPT ![i].state = "running"]
    /\ UNCHANGED <<g_texts, g_results, g_called, g_order, g_pc,
                   rvars, dvars, tvars, xvars>>

\* The worker runs translate_one for item i: one remote call, then the
\* future is finished.
GoogleWorker(i) ==
    /\ g_pc = "pool"
    /\ g_futures[i].state = "running"
    /\ \E outcome \in GoogleOutcomes :
         g_futures' = [g_futures EXCEPT ![i] =
             [state |-> "finished", outcome |-> outcome,
              fut |-> TranslateOne(i - 1, g_texts[i], outcome)]]
    /\ g_called' = [g_called EXCEPT ![i] = @ + 1]
    /\ UNCHANGED <<g_texts, g_results, g_order, g_pc, rvars, dvars, tvars, xvars>>

\* as_completed yields a finished future; the caller stores its result.
GoogleCollect(i) ==
    /\ g_pc = "pool"
    /\ g_futures[i].state = "finished"
    /\ g_results' = CollectFuture(g_results, g_futures[i].fut)
    /\ g_futures' = [g_futures EXCEPT ![i].state = "collected"]
    /\ g_order' = Append(g_order, i)
    /\ UNCHANGED <<g_texts, g_called, g_pc, rvars, dvars, tvars, xvars>>

\* as_completed is exhausted and the pool is shut down: return results.
GoogleReturn ==
    /\ g_pc = "pool"
    /\ \A i \in 1..Len(g_texts) : g_futures[i].state = "collected"
    /\ g_pc' = "done"
    /\ UNCHANGED <<g_texts, g_results, g_futures, g_called, g_order,
                   rvars, dvars, tvars, xvars>>

NextGoogle ==
    \/ \E i \in 1..Len(g_texts) : GoogleStart(i)
    \/ \E i \in 1..Len(g_texts) : GoogleWorker(i)
    \/ \E i \in 1..Len(g_texts) : GoogleCollect(i)
    \/ GoogleReturn

SpecGoogle == InitGoogle /\ [][NextGoogle]_vars

(***************************************************************************)
(* SpecTranslator: calls of translate and translate_batch on one           *)
(* Translator, each call one step.                                         *)
(***************************************************************************)
NoPrev == [value |-> NoValue, source |-> "never"]

Untracked == {"untracked"}

NoCall == [op |-> "none", arg |-> <<>>, result |-> <<>>, source |-> "-",
           gvalue |-> NotCalled, dvalue |-> NotCalled, sent |-> <<>>,
           gcalls |-> 0, dcalls |-> 0, reinits |-> 0, raised |-> FALSE,
           prev |-> NoPrev, fatal_before |-> Untracked, hits |-> {},
           degraded |-> {}]

\* Translator.__init__ with _init_googletrans: the probe either succeeds
\* (handle kept, googletrans in use) or fails (handle dropped, DeepL in use).
InitTranslator ==
    /\ cache = <<>>
    /\ \E probe \in BOOLEAN : use_googletrans = probe /\ gtrans = probe
    /\ deepl_api_key \in BOOLEAN
    /\ translation_count = 0
    /\ returned = [t \in Texts |-> NoPrev]
    /\ ncalls = 0
    /\ last = NoCall
    /\ fatal = Untracked
    /\ RIdle /\ DIdle /\ GIdle /\ XIdle

\* The answers the providers can give to translate(text): none where the
\* call does not reach the provider.
PrimaryAnswers(text) ==
    IF ~SkipTranslate(text) /\ text \notin DOMAIN cache /\ use_googletrans /\ gtrans
    THEN GoogleTraces(DefaultMaxRetries) ELSE {<<>>}

SecondaryAnswers(text, gtrace) ==
    IF /\ ~SkipTranslate(text) /\ text \notin DOMAIN cache /\ deepl_api_key
       /\ ~(/\ use_googletrans /\ gtrans
            /\ GoogleUsable(TranslateGoogletrans(text, DefaultMaxRetries, gtrace).value,
                            text))
    THEN DeeplTraces(DefaultMaxRetries) ELSE {<<>>}

\* The services tell a fatal failure from a passing one only by the
\* exception (googletrans) or the status code (DeepL: 403, 456); the code
\* has one branch for each of "raised" and "status not 200", so whether such
\* an answer was a fatal one is the service's choice.
MayBeFatal(answers, kind) ==
    IF fatal # Untracked /\ \E k \in DOMAIN answers : answers[k] = kind
    THEN BOOLEAN ELSE {FALSE}

NowFatal(fg, fd) ==
    fatal \cup (IF fg THEN {"googletrans"} ELSE {}) \cup (IF fd THEN {"deepl"} ELSE {})

\* The items of a batch whose remote call failed, so that the provider path
\* hands back their original text: translate_one's result without a text or
\* its except branch; a chunk of _batch_deepl answered by a status other
\* than 200 or by an exception of the request.
BatchDegraded(pending, outcomes, resps) ==
    IF use_googletrans /\ gtrans
    THEN {pending[k] : k \in {j \in DOMAIN pending :
                                  outcomes[j] \in {"exc", "none", "empty"}}}
    ELSE {pending[k] : k \in {j \in DOMAIN pending :
                                  resps[((j - 1) \div DeeplBatchSize) + 1].kind # "ok"}}

Translate(text) ==
    /\ ncalls < MaxCalls
    /\ \E gtrace \in PrimaryAnswers(text) :
       \E dtrace \in SecondaryAnswers(text, gtrace) :
       \E r \in {TranslateCall(text, DefaultMaxRetries, gtrace, dtrace, cache,
                                translation_count, use_googletrans, gtrans,
                                deepl_api_key)} :
             /\ cache' = r.cache
             /\ translation_count' = r.count
             /\ returned' = [returned EXCEPT ![text] =
                                [value |-> r.result, source |-> r.source]]
             /\ last' = [op |-> "translate", arg |-> text, result |-> r.result,
                         source |-> r.source, gvalue |-> r.gvalue,
                         dvalue |-> r.dvalue,
                         sent |-> [k \in 1..(r.gcalls + r.dcalls) |-> text],
                         gcalls |-> r.gcalls, dcalls |-> r.dcalls,
                         reinits |-> r.reinits, raised |-> r.raised,
                         prev |-> returned[text], fatal_before |-> fatal,
                         hits |-> {text} \cap DOMAIN cache,
                         degraded |-> IF r.source = "none" /\ r.gcalls + r.dcalls > 0
                                      THEN {text} ELSE {}]
             /\ \E fg \in MayBeFatal(gtrace, "exc"), fd \in MayBeFatal(dtrace, "status") :
                    fatal' = NowFatal(fg, fd)
    /\ ncalls' = ncalls + 1
    /\ UNCHANGED <<use_googletrans, gtrans, deepl_api_key, rvars, dvars, gvars, xvars>>

TranslateBatch(texts) ==
    /\ ncalls < MaxCalls
    /\ LET n == Len(ToTranslate(texts, cache, 1))
           parallel == use_googletrans /\ gtrans
       IN  \E outcomes \in (IF parallel THEN [1..n -> GoogleOutcomes] ELSE {<<>>}),
              resps \in (IF ~parallel /\ deepl_api_key /\ n > 0
                         THEN DeeplAnswerSeqs(n, DeeplBatchSize) ELSE {<<>>}) :
           \E r \in {TranslateBatchCall(texts, outcomes, resps, cache,
                                         translation_count, use_googletrans,
                                         gtrans, deepl_api_key)} :
                 /\ cache' = r.cache
                 /\ translation_count' = r.count
                 /\ last' = [op |-> "translate_batch", arg |-> texts,
                             result |-> r.result, source |-> "-",
                             gvalue |-> NotCalled, dvalue |-> NotCalled,
                             sent |-> r.sent, gcalls |-> r.gcalls,
                             dcalls |-> r.dcalls, reinits |-> 0,
                             raised |-> r.raised, prev |-> NoPrev,
                             fatal_before |-> fatal,
                             hits |-> {texts[i] : i \in DOMAIN texts}
                                          \cap DOMAIN cache,
                             degraded |-> BatchDegraded(r.sent, outcomes, resps)]
                 /\ \E fg \in MayBeFatal(outcomes, "exc"),
                       fd \in MayBeFatal([k \in DOMAIN resps |-> resps[k].kind], "status") :
                        fatal' = NowFatal(fg, fd)
    /\ ncalls' = ncalls + 1
    /\ UNCHANGED <<use_googletrans, gtrans, deepl_api_key, returned,
                   rvars, dvars, gvars, xvars>>

NextTranslator ==
    \/ \E text \in Texts : Translate(text)
    \/ \E texts \in BatchInputs : TranslateBatch(texts)

SpecTranslator == InitTranslator /\ [][NextTranslator]_vars

\* SpecFatal: the same calls on the same Translator, with the record of the
\* fatal failures the services have reported.
InitFatal ==
    /\ cache = <<>>
    /\ \E probe \in BOOLEAN : use_googletrans = probe /\ gtrans = probe
    /\ deepl_api_key \in BOOLEAN
    /\ translation_count = 0
    /\ returned = [t \in Texts |-> NoPrev]
    /\ ncalls = 0
    /\ last = [NoCall EXCEPT !.fatal_before = {}]
    /\ fatal = {}
    /\ RIdle /\ DIdle /\ GIdle /\ XIdle

SpecFatal == InitFatal /\ [][NextTranslator]_vars

(***************************************************************************)
(* SpecUnit: one paragraph handled by an adapter, from the harvest of its  *)
(* runs to the write-back of the translation.                              *)
(***************************************************************************)
\* ---- bounds of the paragraph
MaxUnitRuns == 2
MaxUnitRunLen == 2

PptxSites == {"shape", "cell", "notes"}
DocxSites == {"body", "table", "header", "footer"}

\* list(para.runs) / paragraph.runs: any number of runs, the empty list too.
UnitRunTexts == SeqsUpTo({"a", " "}, MaxUnitRunLen)
UnitRunLists == SeqsUpTo(UnitRunTexts, MaxUnitRuns)

\* _collect_texts and _collect_table_texts:
\*     if runs: ... if combined.strip() and len(combined.strip()) >= 2: append
PptxShapeRecords(runs) ==
    /\ runs # <<>>
    /\ Strip(Join(runs)) # <<>>
    /\ Len(Strip(Join(runs))) >= 2

\* The notes of _process_slide_batch:
\*     if runs: ... if combined.strip(): append
PptxNotesRecords(runs) ==
    /\ runs # <<>>
    /\ Strip(Join(runs)) # <<>>

\* _process_paragraph: returns before translate when there are no runs or
\* the combined text is blank; otherwise hands the text to translate.
DocxSubmits(runs) ==
    /\ runs # <<>>
    /\ Strip(Join(runs)) # <<>>

Records(site, runs) ==
    CASE site \in {"shape", "cell"} -> PptxShapeRecords(runs)
      [] site = "notes"             -> PptxNotesRecords(runs)
      [] OTHER                      -> DocxSubmits(runs)

\* A text of another unit of the same batch.
OtherText == <<"b", "b">>

\* What the Translator can hand back for the unit: translate_batch puts at
\* the unit's index the text itself (skipped, failed or identical answer),
\* its translation, an empty 'text' of a DeepL item, or the value of a
\* neighbour when _batch_deepl's list is out of step; translate returns the
\* text itself or a non-empty provider result.
UnitAnswers(site, combined) ==
    IF site \in PptxSites
    THEN IF SkipBatch(combined) THEN {combined}
         ELSE {combined, Tr(combined), <<>>, OtherText}
    ELSE IF SkipTranslate(combined) THEN {combined}
         ELSE {combined, Tr(combined)}

\* A docx guard that hands every answer to the redistribution.
DocxAppliesAlways(translated, combined) == TRUE

\* _process_slide_batch: if translated and translated != orig_combined
PptxApplies(translated, combined) ==
    Truthy(translated) /\ translated # combined

\* _process_paragraph: if translated_text == combined_text: return
DocxApplies(translated, combined) == translated # combined

\* The runs after the write-back of the unit's answer.
ApplyUnit(site, runs, orig, translated) ==
    IF site \in PptxSites
    THEN IF PptxApplies(translated, Join(orig))
         THEN PptxRedistribute(runs, orig, translated) ELSE runs
    ELSE IF DocxApplies(translated, Join(orig))
         THEN DocxRedistribute(runs, orig, translated) ELSE runs

InitUnit ==
    /\ u_site \in PptxSites \cup DocxSites
    /\ u_orig \in UnitRunLists
    /\ u_runs = u_orig
    /\ u_recorded = FALSE
    /\ u_translated = NoValue
    /\ u_pc = "harvest"
    /\ RIdle /\ DIdle /\ GIdle /\ TIdle /\ PIdle /\ SIdle /\ AIdle /\ BIdle
       /\ WIdle

\* The adapter reads the runs and either records the unit or passes it by.
Harvest ==
    /\ u_pc = "harvest"
    /\ u_recorded' = Records(u_site, u_runs)
    /\ u_pc' = IF Records(u_site, u_runs) THEN "translate" ELSE "done"
    /\ UNCHANGED <<u_site, u_runs, u_orig, u_translated,
                   rvars, dvars, gvars, tvars, pvars, svars, avars, bvars,
                   wvars>>

\* translate_batch (pptx) or translate (docx) returns the unit's answer.
UnitTranslate ==
    /\ u_pc = "translate"
    /\ u_translated' \in UnitAnswers(u_site, Join(u_orig))
    /\ u_pc' = "apply"
    /\ UNCHANGED <<u_site, u_runs, u_orig, u_recorded,
                   rvars, dvars, gvars, tvars, pvars, svars, avars, bvars,
                   wvars>>

\* The answer is written back to the runs, or left out.
UnitApply ==
    /\ u_pc = "apply"
    /\ u_runs' = ApplyUnit(u_site, u_runs, u_orig, u_translated)
    /\ u_pc' = "done"
    /\ UNCHANGED <<u_site, u_orig, u_recorded, u_translated,
                   rvars, dvars, gvars, tvars, pvars, svars, avars, bvars,
                   wvars>>

NextUnit == Harvest \/ UnitTranslate \/ UnitApply

SpecUnit == InitUnit /\ [][NextUnit]_vars

(***************************************************************************)
(* SpecProcess: one call of process_file of either adapter, one content    *)
(* unit per step.  What the document object model does when a unit is      *)
(* processed (works, or raises) belongs to the document.                   *)
(***************************************************************************)
\* ---- bound: units of each category in a document
MaxUnits == 2

\* A slide of a presentation: _process_slide_batch returns, or an error
\* leaves it.
SlideUnits == [cat : {"slide"}, fate : {"ok", "raises"}]
\* A body paragraph: _process_paragraph returns or raises.
BodyUnits == [cat : {"body"}, fate : {"ok", "raises"}]
\* A table: the walk over its cells returns or raises.
TableUnits == [cat : {"table"}, fate : {"ok", "raises"}]
\* A section: its header and footer are processed, or the header raises, or
\* the header is processed and the footer raises.
SectionUnits == [cat : {"section"}, fate : {"ok", "header_raises", "footer_raises"}]

\* prs.slides in order.
PptxDocs == SeqsUpTo(SlideUnits, MaxUnits)

\* doc.paragraphs, then doc.tables, then doc.sections.
DocxDocs ==
    {b \o t \o c : b \in SeqsUpTo(BodyUnits, MaxUnits),
                   t \in SeqsUpTo(TableUnits, MaxUnits),
                   c \in SeqsUpTo(SectionUnits, MaxUnits)}

NoStats == [slides_processed |-> 0, paragraphs_processed |-> 0,
            tables_processed |-> 0, headers_processed |-> 0,
            footers_processed |-> 0, errors |-> <<>>]

\* self.stats['errors'].append(...): the entry names the unit it is about
\* (0 for the file as a whole) and the handler that wrote it.
AppendError(stats, unit, by) ==
    [stats EXCEPT !.errors = Append(@, [unit |-> unit, by |-> by])]

\* The body of the traversal for unit number k: the stats after it, and
\* whether an exception leaves the loops of process_file.
ProcessUnit(k, unit, stats) ==
    CASE unit.cat = "slide" ->
           \* try: _process_slide_batch; slides_processed += 1
           \* except Exception: errors.append("Error on slide ...")
           IF unit.fate = "ok"
           THEN [stats |-> [stats EXCEPT !.slides_processed = @ + 1], raised |-> FALSE]
           ELSE [stats |-> AppendError(stats, k, "slide"), raised |-> FALSE]
      [] unit.cat = "body" ->
           \* self._process_paragraph(paragraph); paragraphs_processed += 1
           IF unit.fate = "ok"
           THEN [stats |-> [stats EXCEPT !.paragraphs_processed = @ + 1], raised |-> FALSE]
           ELSE [stats |-> stats, raised |-> TRUE]
      [] unit.cat = "table" ->
           \* _process_table: try ... tables_processed += 1
           \* except Exception: errors.append("Error processing table ...")
           IF unit.fate = "ok"
           THEN [stats |-> [stats EXCEPT !.tables_processed = @ + 1], raised |-> FALSE]
           ELSE [stats |-> AppendError(stats, k, "table"), raised |-> FALSE]
      [] OTHER ->
           \* _process_header_footer: try: header ...; footer ...
           \* except Exception: logger.debug(...)
           CASE unit.fate = "ok" ->
                  [stats |-> [stats EXCEPT !.headers_processed = @ + 1,
                                           !.footers_processed = @ + 1],
                   raised |-> FALSE]
             [] unit.fate = "header_raises" ->
                  [stats |-> stats, raised |-> FALSE]
             [] OTHER ->
                  [stats |-> [stats EXCEPT !.headers_processed = @ + 1],
                   raised |-> FALSE]

\* A save that does not wait for the end of the loops.
SaveEnabledEarly(pc, i, n) == pc = "traverse"

\* prs.save / doc.save stands after the loops: it is reached when the
\* traversal has left every unit behind.
SaveEnabled(pc, i, n) == pc = "traverse" /\ i = n

InitProcess ==
    /\ p_kind \in {"pptx", "docx"}
    /\ p_units \in (IF p_kind = "pptx" THEN PptxDocs ELSE DocxDocs)
    /\ p_i = 0
    /\ p_visited = {}
    /\ p_stats = NoStats
    /\ p_saves = 0
    /\ p_pc = "load"
    /\ RIdle /\ DIdle /\ GIdle /\ TIdle /\ UIdle /\ SIdle /\ AIdle /\ BIdle
       /\ WIdle

\* Presentation(input_path) / Document(input_path): returns, or raises into
\* the outer except, which appends str(e) and re-raises.
Load ==
    /\ p_pc = "load"
    /\ \E ok \in BOOLEAN :
         IF ok
         THEN p_pc' = "traverse" /\ UNCHANGED p_stats
         ELSE p_pc' = "raised:load" /\ p_stats' = AppendError(p_stats, 0, "file")
    /\ UNCHANGED <<p_kind, p_units, p_i, p_visited, p_saves,
                   rvars, dvars, gvars, tvars, uvars, svars, avars, bvars,
                   wvars>>

\* One iteration of the loops over slides, paragraphs, tables or sections.
TraverseUnit ==
    /\ p_pc = "traverse"
    /\ p_i < Len(p_units)
    /\ \E r \in {ProcessUnit(p_i + 1, p_units[p_i + 1], p_stats)} :
         IF r.raised
         THEN /\ p_stats' = AppendError(r.stats, 0, "file")
              /\ p_pc' = "raised:traversal"
              /\ UNCHANGED p_i
         ELSE /\ p_stats' = r.stats
              /\ p_i' = p_i + 1
              /\ UNCHANGED p_pc
    /\ p_visited' = p_visited \cup {p_i + 1}
    /\ UNCHANGED <<p_kind, p_units, p_saves, rvars, dvars, gvars, tvars, uvars, svars, avars, bvars,
                   wvars>>

\* save(output_path), then return self.stats; a failing save raises into the
\* outer except.
Save ==
    /\ SaveEnabled(p_pc, p_i, Len(p_units))
    /\ p_saves' = p_saves + 1
    /\ \E ok \in BOOLEAN :
         IF ok
         THEN p_pc' = "returned" /\ UNCHANGED p_stats
         ELSE p_pc' = "raised:save" /\ p_stats' = AppendError(p_stats, 0, "file")
    /\ UNCHANGED <<p_kind, p_units, p_i, p_visited, rvars, dvars, gvars, tvars, uvars, svars, avars, bvars,
                   wvars>>

NextProcess == Load \/ TraverseUnit \/ Save

SpecProcess == InitProcess /\ [][NextProcess]_vars

(***************************************************************************)
(* SpecSlide: one call of _process_slide_batch, one top-level shape per    *)
(* step, then the notes, then the batch.  A paragraph is named by the path *)
(* of child positions that leads to its shape (<<0>> for the notes).       *)
(***************************************************************************)
\* ---- bound: shapes on a slide, groups and their descendants included
MaxShapes == 4

Shape(kind, children) == [kind |-> kind, children |-> children]

\* The shapes that are not groups:
\*   text   has_text_frame, one paragraph that passes the harvest test
\*   table  has_table, one cell paragraph that passes the harvest test
\*   other  neither a table nor a text frame (a picture, a connector)
\*   bad    reading the shape raises
LeafShapes == {Shape(k, <<>>) : k \in {"text", "table", "other", "bad"}}

\* The shape trees of exactly n shapes, and the lists of trees of exactly m
\* shapes in all.
RECURSIVE TreesOf(_), ForestsOf(_)
TreesOf(n) ==
    IF n = 1 THEN LeafShapes \cup {Shape("group", <<>>)}
    ELSE {Shape("group", f) : f \in ForestsOf(n - 1)}

ForestsOf(m) ==
    IF m = 0 THEN {<<>>}
    ELSE UNION {{<<t>> \o f : t \in TreesOf(k), f \in ForestsOf(m - k)} : k \in 1..m}

Slides == UNION {ForestsOf(m) : m \in 0..MaxShapes}

NoSlideStats == [groups_traversed |-> 0, shapes_processed |-> 0,
                 tables_processed |-> 0, errors |-> <<>>]

\* _collect_texts for a shape that is not a group.
CollectLeaf(shape, path, st) ==
    CASE shape.kind = "table" ->
           \* self._collect_table_texts(shape.table, text_locations)
           \* self.stats['tables_processed'] += 1
           [locations |-> Append(st.locations, path),
            stats |-> [st.stats EXCEPT !.tables_processed = @ + 1]]
      [] shape.kind = "text" ->
           [locations |-> Append(st.locations, path),
            stats |-> [st.stats EXCEPT !.shapes_processed = @ + 1]]
      [] shape.kind = "other" ->
           [locations |-> st.locations,
            stats |-> [st.stats EXCEPT !.shapes_processed = @ + 1]]
      [] OTHER ->
           \* except Exception as e: errors.append(f"Shape error: {e}")
           [locations |-> st.locations,
            stats |-> [st.stats EXCEPT !.errors = Append(@, path)]]

\* A collection that counts a group and leaves its children aside.
CollectTextsShallow(shape, path, st) ==
    IF shape.kind = "group"
    THEN [locations |-> st.locations,
          stats |-> [st.stats EXCEPT !.groups_traversed = @ + 1]]
    ELSE CollectLeaf(shape, path, st)

\* _collect_texts(shape, text_locations): a group is counted and each child
\* collected in turn.
RECURSIVE CollectTexts(_, _, _), CollectChildren(_, _, _, _)
CollectTexts(shape, path, st) ==
    IF shape.kind = "group"
    THEN CollectChildren(shape.children, path, 1,
             [locations |-> st.locations,
              stats |-> [st.stats EXCEPT !.groups_traversed = @ + 1]])
    ELSE CollectLeaf(shape, path, st)

\* for child in shape.shapes: self._collect_texts(child, text_locations)
CollectChildren(children, path, j, st) ==
    IF j > Len(children) THEN st
    ELSE CollectChildren(children, path, j + 1,
             CollectTexts(children[j], Append(path, j), st))

NotesPath == <<0>>

InitSlide ==
    /\ s_shapes \in Slides
    /\ s_notes \in {"none", "text", "raises"}
    /\ s_i = 0
    /\ s_locations = <<>>
    /\ s_stats = NoSlideStats
    /\ s_batches = <<>>
    /\ s_pc = "shapes"
    /\ RIdle /\ DIdle /\ GIdle /\ TIdle /\ UIdle /\ PIdle /\ AIdle /\ BIdle
       /\ WIdle

\* for shape in slide.shapes: self._collect_texts(shape, text_locations)
CollectShape ==
    /\ s_pc = "shapes"
    /\ s_i < Len(s_shapes)
    /\ \E r \in {CollectTexts(s_shapes[s_i + 1], <<s_i + 1>>,
                              [locations |-> s_locations, stats |-> s_stats])} :
         /\ s_locations' = r.locations
         /\ s_stats' = r.stats
    /\ s_i' = s_i + 1
    /\ UNCHANGED <<s_shapes, s_notes, s_batches, s_pc,
                   rvars, dvars, gvars, tvars, uvars, pvars, avars, bvars,
                   wvars>>

ShapesDone ==
    /\ s_pc = "shapes"
    /\ s_i = Len(s_shapes)
    /\ s_pc' = "notes"
    /\ UNCHANGED <<s_shapes, s_notes, s_i, s_locations, s_stats, s_batches,
                   rvars, dvars, gvars, tvars, uvars, pvars, avars, bvars,
                   wvars>>

\* The notes: harvested when there are any; an error is passed over.
CollectNotes ==
    /\ s_pc = "notes"
    /\ s_locations' = IF s_notes = "text"
                      THEN Append(s_locations, NotesPath) ELSE s_locations
    /\ s_pc' = "batch"
    /\ UNCHANGED <<s_shapes, s_notes, s_i, s_stats, s_batches,
                   rvars, dvars, gvars, tvars, uvars, pvars, avars, bvars,
                   wvars>>

\* if not text_locations: return; otherwise one translate_batch call with
\* the combined text of every location, and the write-back.
SlideBatch ==
    /\ s_pc = "batch"
    /\ s_batches' = IF s_locations = <<>> THEN s_batches
                    ELSE Append(s_batches, s_locations)
    /\ s_pc' = "done"
    /\ UNCHANGED <<s_shapes, s_notes, s_i, s_locations, s_stats,
                   rvars, dvars, gvars, tvars, uvars, pvars, avars, bvars,
                   wvars>>

NextSlide == CollectShape \/ ShapesDone \/ CollectNotes \/ SlideBatch

SpecSlide == InitSlide /\ [][NextSlide]_vars

(***************************************************************************)
(* SpecRetry: one call of translate(text, max_retries), one remote attempt *)
(* per step.  The call runs on its own thread of control, so a step that   *)
(* is possible is eventually taken.                                        *)
(***************************************************************************)
\* ---- bound of the argument max_retries
MaxRetryArg == 3

\* No run makes more attempts than this; the guards stop counting there.
AttemptCap == 2 * MaxRetryArg + 2

\* A loop that does not count an attempt answered 429.
NextAttemptUncounted429(attempt, o) ==
    IF o = "429" THEN attempt ELSE attempt + 1

\* for attempt in range(max_retries): the next value of the loop variable
\* after an attempt that did not return, whatever it ended with.
NextAttempt(attempt, o) == attempt + 1

InitRetry ==
    /\ a_text \in {TEmpty, TAb}
    /\ a_cached \in BOOLEAN
    /\ a_ug \in BOOLEAN
    /\ a_key \in BOOLEAN
    /\ a_max \in 0..MaxRetryArg
    /\ a_attempt = 0
    /\ a_gcalls = 0
    /\ a_dcalls = 0
    /\ a_reinits = 0
    /\ a_result = NoValue
    /\ a_pc = "entry"
    /\ RIdle /\ DIdle /\ GIdle /\ TIdle /\ UIdle /\ PIdle /\ SIdle /\ BIdle
       /\ WIdle

\* translate up to the first provider: the skip rules and the cache.
RetryEntry ==
    /\ a_pc = "entry"
    /\ IF SkipTranslate(a_text)
       THEN a_pc' = "returned" /\ a_result' = a_text
       ELSE IF a_cached
       THEN a_pc' = "returned" /\ a_result' = Tr(a_text)
       ELSE IF a_ug
       THEN a_pc' = "primary" /\ UNCHANGED a_result
       ELSE IF a_key
       THEN a_pc' = "secondary" /\ UNCHANGED a_result
       ELSE a_pc' = "returned" /\ a_result' = a_text
    /\ UNCHANGED <<a_text, a_cached, a_ug, a_key, a_max, a_attempt, a_gcalls,
                   a_dcalls, a_reinits, rvars, dvars, gvars, tvars, uvars,
                   pvars, svars, bvars, wvars>>

\* translate after _translate_googletrans returned value: return it when
\* usable, else go on to DeepL when a key is set, else return the text.
AfterPrimary(value) ==
    IF GoogleUsable(value, a_text)
    THEN a_pc' = "returned" /\ a_result' = value /\ a_attempt' = 0
    ELSE IF a_key
    THEN a_pc' = "secondary" /\ UNCHANGED a_result /\ a_attempt' = 0
    ELSE a_pc' = "returned" /\ a_result' = a_text /\ a_attempt' = 0

\* One iteration of the loop of _translate_googletrans.
GoogleAttempt ==
    /\ a_pc = "primary"
    /\ a_attempt < a_max
    /\ a_gcalls + a_dcalls < AttemptCap
    /\ a_gcalls' = a_gcalls + 1
    /\ \E o \in GoogleOutcomes :
         IF o \in {"same", "tr"}
         THEN AfterPrimary(GoogleText(a_text, o)) /\ UNCHANGED a_reinits
         ELSE /\ a_attempt' = NextAttempt(a_attempt, o)
              /\ a_reinits' = IF o = "exc" /\ a_attempt < a_max - 1
                              THEN a_reinits + 1 ELSE a_reinits
              /\ UNCHANGED <<a_pc, a_result>>
    /\ UNCHANGED <<a_text, a_cached, a_ug, a_key, a_max, a_dcalls,
                   rvars, dvars, gvars, tvars, uvars, pvars, svars, bvars,
                   wvars>>

\* The range of _translate_googletrans is exhausted: return None.
GoogleExhausted ==
    /\ a_pc = "primary"
    /\ a_attempt >= a_max
    /\ AfterPrimary(NoValue)
    /\ UNCHANGED <<a_text, a_cached, a_ug, a_key, a_max, a_gcalls, a_dcalls,
                   a_reinits, rvars, dvars, gvars, tvars, uvars, pvars, svars, bvars,
                   wvars>>

\* One iteration of the loop of _translate_deepl.
DeeplAttempt ==
    /\ a_pc = "secondary"
    /\ a_attempt < a_max
    /\ a_gcalls + a_dcalls < AttemptCap
    /\ a_dcalls' = a_dcalls + 1
    /\ \E o \in DeeplFailures \cup DeeplSuccesses :
         IF o \in DeeplSuccesses
         THEN /\ a_pc' = "returned"
              /\ a_result' = IF DeeplUsable(DeeplText(a_text, o))
                             THEN DeeplText(a_text, o) ELSE a_text
              /\ a_attempt' = 0
         ELSE /\ a_attempt' = NextAttempt(a_attempt, o)
              /\ UNCHANGED <<a_pc, a_result>>
    /\ UNCHANGED <<a_text, a_cached, a_ug, a_key, a_max, a_gcalls, a_reinits,
                   rvars, dvars, gvars, tvars, uvars, pvars, svars, bvars,
                   wvars>>

\* The range of _translate_deepl is exhausted: None, and translate returns
\* the text.
DeeplExhausted ==
    /\ a_pc = "secondary"
    /\ a_attempt >= a_max
    /\ a_pc' = "returned"
    /\ a_result' = a_text
    /\ a_attempt' = 0
    /\ UNCHANGED <<a_text, a_cached, a_ug, a_key, a_max, a_gcalls, a_dcalls,
                   a_reinits, rvars, dvars, gvars, tvars, uvars, pvars, svars, bvars,
                   wvars>>

NextRetry ==
    \/ RetryEntry
    \/ GoogleAttempt
    \/ GoogleExhausted
    \/ DeeplAttempt
    \/ DeeplExhausted

SpecRetry == InitRetry /\ [][NextRetry]_vars /\ WF_vars(NextRetry)

(***************************************************************************)
(* One batch scope of an adapter, as the order of its harvests, Translator *)
(* calls and write-backs: a slide in PPTXProcessor._process_slide_batch, a *)
(* whole document in DOCXProcessor.process_file, whose body paragraphs,    *)
(* table cells and header/footer paragraphs all go through                 *)
(* _process_paragraph one after the other.                                 *)
(***************************************************************************)
MaxScopeUnits == 3

ScopeParagraphs ==
    UNION {[1..n -> {"text", "blank"}] : n \in 0..MaxScopeUnits}

\* one entry of the log: a harvest, a call or a write-back, with the
\* paragraphs (positions in the scope) it is about
Event(ev, units) == [ev |-> ev, units |-> units]

InitScope ==
    /\ RIdle /\ DIdle /\ GIdle /\ TIdle /\ UIdle /\ PIdle /\ SIdle /\ AIdle
       /\ WIdle
    /\ b_kind \in {"pptx", "docx"}
    /\ b_units \in ScopeParagraphs
    /\ b_i = 0
    /\ b_locs = <<>>
    /\ b_log = <<>>
    /\ b_pc = "harvest"

\* _process_slide_batch: translate_batch stands after the loop over the
\* shapes and the notes, so it is reached once every paragraph is behind
BatchReadyEarly(i, n) == i >= 1 \/ i = n
BatchReady(i, n) == i = n

\* _collect_texts / the notes block: a paragraph that passes the test is
\* appended to text_locations
PptxHarvest ==
    /\ b_kind = "pptx" /\ b_pc = "harvest"
    /\ b_i < Len(b_units)
    /\ ~BatchReady(b_i, Len(b_units))
    /\ b_i' = b_i + 1
    /\ IF b_units[b_i + 1] = "text"
       THEN /\ b_locs' = Append(b_locs, b_i + 1)
            /\ b_log' = Append(b_log, Event("harvest", <<b_i + 1>>))
       ELSE UNCHANGED <<b_locs, b_log>>
    /\ UNCHANGED <<b_kind, b_units, b_pc, rvars, dvars, gvars, tvars,
                   uvars, pvars, svars, avars, wvars>>

\* if not text_locations: return; else one translate_batch(all_texts)
PptxBatch ==
    /\ b_kind = "pptx" /\ b_pc = "harvest"
    /\ BatchReady(b_i, Len(b_units))
    /\ IF b_locs = <<>>
       THEN /\ b_pc' = "done"
            /\ UNCHANGED <<b_i, b_log>>
       ELSE /\ b_pc' = "apply"
            /\ b_i' = 0
            /\ b_log' = Append(b_log, Event("translate_batch", b_locs))
    /\ UNCHANGED <<b_kind, b_units, b_locs, rvars, dvars, gvars, tvars,
                   uvars, pvars, svars, avars, wvars>>

\* the zip loop: a location is written back when its translation is
\* non-empty and differs from the original
PptxApply ==
    /\ b_kind = "pptx" /\ b_pc = "apply"
    /\ b_i < Len(b_locs)
    /\ b_i' = b_i + 1
    /\ \E changed \in BOOLEAN :
         b_log' = IF changed
                  THEN Append(b_log, Event("redistribute", <<b_locs[b_i + 1]>>))
                  ELSE b_log
    /\ UNCHANGED <<b_kind, b_units, b_locs, b_pc, rvars, dvars, gvars, tvars,
                   uvars, pvars, svars, avars, wvars>>

PptxReturn ==
    /\ b_kind = "pptx" /\ b_pc = "apply"
    /\ b_i = Len(b_locs)
    /\ b_pc' = "done"
    /\ UNCHANGED <<b_kind, b_units, b_i, b_locs, b_log, rvars, dvars, gvars,
                   tvars, uvars, pvars, svars, avars, wvars>>

\* _process_paragraph up to its second return: a paragraph without runs or
\* with blank text is left behind, any other has its text joined
DocxHarvest ==
    /\ b_kind = "docx" /\ b_pc = "harvest"
    /\ b_i < Len(b_units)
    /\ IF b_units[b_i + 1] = "text"
       THEN /\ b_pc' = "translate"
            /\ b_log' = Append(b_log, Event("harvest", <<b_i + 1>>))
            /\ UNCHANGED b_i
       ELSE /\ b_i' = b_i + 1
            /\ UNCHANGED <<b_pc, b_log>>
    /\ UNCHANGED <<b_kind, b_units, b_locs, rvars, dvars, gvars, tvars,
                   uvars, pvars, svars, avars, wvars>>

\* translated_text = self.translator.translate(combined_text)
DocxTranslate ==
    /\ b_kind = "docx" /\ b_pc = "translate"
    /\ b_pc' = "apply"
    /\ b_log' = Append(b_log, Event("translate", <<b_i + 1>>))
    /\ UNCHANGED <<b_kind, b_units, b_i, b_locs, rvars, dvars, gvars, tvars,
                   uvars, pvars, svars, avars, wvars>>

\* if translated_text == combined_text: return; else redistribute.  The
\* loop of process_file then goes on to the next paragraph.
DocxApply ==
    /\ b_kind = "docx" /\ b_pc = "apply"
    /\ b_pc' = "harvest"
    /\ b_i' = b_i + 1
    /\ \E changed \in BOOLEAN :
         b_log' = IF changed
                  THEN Append(b_log, Event("redistribute", <<b_i + 1>>))
                  ELSE b_log
    /\ UNCHANGED <<b_kind, b_units, b_locs, rvars, dvars, gvars, tvars,
                   uvars, pvars, svars, avars, wvars>>

DocxReturn ==
    /\ b_kind = "docx" /\ b_pc = "harvest"
    /\ b_i = Len(b_units)
    /\ b_pc' = "done"
    /\ UNCHANGED <<b_kind, b_units, b_i, b_locs, b_log, rvars, dvars, gvars,
                   tvars, uvars, pvars, svars, avars, wvars>>

NextScope ==
    \/ PptxHarvest
    \/ PptxBatch
    \/ PptxApply
    \/ PptxReturn
    \/ DocxHarvest
    \/ DocxTranslate
    \/ DocxApply
    \/ DocxReturn

SpecScope == InitScope /\ [][NextScope]_vars

(***************************************************************************)
(* The write-back of one slide: PPTXProcessor._process_slide_batch from    *)
(* the translate_batch call on, with the texts of the units and the answer *)
(* of a fresh Translator to them.                                          *)
(***************************************************************************)
MaxWriteUnits == 2

\* The runs of a harvested paragraph: one run or two, two distinct texts.
WriteUnitRuns ==
    { <<TAb>>, <<<<"a">>, <<"b">>>>, <<TCd>>, <<<<"c">>, <<"d">>>> }

WriteSlides == UNION {[1..n -> WriteUnitRuns] : n \in 1..MaxWriteUnits}

InitWriteBack ==
    /\ RIdle /\ DIdle /\ GIdle /\ TIdle /\ UIdle /\ PIdle /\ SIdle /\ AIdle
       /\ BIdle
    /\ w_ug \in BOOLEAN
    /\ w_key \in BOOLEAN
    /\ w_orig \in WriteSlides
    /\ w_runs = w_orig
    /\ w_translated = <<>>
    /\ w_j = 0
    /\ w_redist = [k \in DOMAIN w_orig |-> 0]
    /\ w_pc = "collected"

\* all_texts = [loc[3] for loc in text_locations]
AllTexts(locations) == [k \in DOMAIN locations |-> Join(locations[k])]

\* translated_texts = self.translator.translate_batch(all_texts), on a
\* Translator whose cache is empty
WriteBatch ==
    /\ w_pc = "collected"
    /\ LET n == Len(ToTranslate(AllTexts(w_orig), <<>>, 1))
       IN  \E outcomes \in (IF w_ug THEN [1..n -> GoogleOutcomes] ELSE {<<>>}),
              resps \in (IF ~w_ug /\ w_key /\ n > 0
                         THEN DeeplAnswerSeqs(n, DeeplBatchSize) ELSE {<<>>}) :
           \E r \in {TranslateBatchCall(AllTexts(w_orig), outcomes, resps,
                                         <<>>, 0, w_ug, w_ug, w_key)} :
                 w_translated' = r.result
    /\ w_j' = 0
    /\ w_pc' = "apply"
    /\ UNCHANGED <<w_ug, w_key, w_orig, w_runs, w_redist,
                   rvars, dvars, gvars, tvars, uvars, pvars, svars, avars, bvars>>

\* one pair of zip(text_locations, translated_texts):
\*     if translated and translated != orig_combined: redistribute
WriteApply ==
    /\ w_pc = "apply"
    /\ w_j < Min(Len(w_orig), Len(w_translated))
    /\ w_j' = w_j + 1
    /\ LET k == w_j + 1
       IN  IF PptxApplies(w_translated[k], Join(w_orig[k]))
           THEN /\ w_runs' = [w_runs EXCEPT ![k] =
                                 PptxRedistribute(w_runs[k], w_orig[k],
                                                  w_translated[k])]
                /\ w_redist' = [w_redist EXCEPT ![k] = @ + 1]
           ELSE UNCHANGED <<w_runs, w_redist>>
    /\ UNCHANGED <<w_ug, w_key, w_orig, w_translated, w_pc,
                   rvars, dvars, gvars, tvars, uvars, pvars, svars, avars, bvars>>

WriteReturn ==
    /\ w_pc = "apply"
    /\ w_j = Min(Len(w_orig), Len(w_translated))
    /\ w_pc' = "done"
    /\ UNCHANGED <<w_ug, w_key, w_orig, w_runs, w_translated, w_j, w_redist,
                   rvars, dvars, gvars, tvars, uvars, pvars, svars, avars, bvars>>

NextWriteBack ==
    \/ WriteBatch
    \/ WriteApply
    \/ WriteReturn

SpecWriteBack == InitWriteBack /\ [][NextWriteBack]_vars


\* C1: after _redistribute_text_to_runs, the run texts concatenated in order
\* are exactly the translated string: no character is dropped or duplicated.
C1_ConcatEqualsTranslated ==
    r_pc = "done" => Join(r_runs) = r_trans

\* A three-run paragraph whose translation is shorter than the original, with
\* a word-boundary correction applied to the first cut.
C1_Witness ==
    /\ r_pc = "done"
    /\ Len(r_runs) = 3
    /\ r_trans # <<>>
    /\ Len(r_trans) < SumLen(r_orig)
    /\ r_runs[1] # <<>>
    /\ r_runs[1][Len(r_runs[1])] = " "
    /\ Join(r_runs) = r_trans

\* ceil(n / c)
CeilDiv(n, c) == (n + c - 1) \div c

\* C7: _batch_deepl issues exactly ceil(n/c) requests, in input order, the
\* j-th carrying the contiguous window texts[(j-1)c : jc] (at most c texts,
\* only the last one possibly smaller), whatever each request's outcome.
C7_ChunkRequests ==
    /\ Len(d_requests) <= CeilDiv(Len(d_texts), d_bs)
    /\ \A j \in 1..Len(d_requests) :
         /\ d_requests[j] = Slice(d_texts, (j - 1) * d_bs, j * d_bs)
         /\ Len(d_requests[j]) <= d_bs
         /\ (j < CeilDiv(Len(d_texts), d_bs) => Len(d_requests[j]) = d_bs)
    /\ (d_pc = "done" => Len(d_requests) = CeilDiv(Len(d_texts), d_bs))

\* Three texts with cap 2: two requests, of 2 and 1 texts, the first of which
\* failed.
C7_Witness ==
    /\ d_pc = "done"
    /\ Len(d_texts) = 3 /\ d_bs = 2
    /\ Len(d_requests) = 2
    /\ Len(d_requests[1]) = 2 /\ Len(d_requests[2]) = 1
    /\ d_resps[1].kind = "status"

\* The chunk's response is an unrecoverable failure: an exception, a status
\* other than 200, more items than requested, or a malformed item.
ChunkFailed(resp, k) ==
    \/ resp.kind \in {"exc", "status"}
    \/ /\ resp.kind = "ok"
       /\ \/ Len(resp.items) > k
          \/ \E j \in 1..Len(resp.items) : resp.items[j] = "bad"

\* C8: whenever a chunk fails unrecoverably, exactly that chunk's original
\* texts are returned at that chunk's positions, and the output is as long as
\* the input.
C8_FailedChunkKeepsOriginals ==
    d_pc = "done" =>
        \A j \in 1..Len(d_requests) :
            ChunkFailed(d_resps[j], Len(d_requests[j])) =>
                /\ Len(d_results) = Len(d_texts)
                /\ \A p \in ((j - 1) * d_bs + 1)..Min(j * d_bs, Len(d_texts)) :
                       d_results[p] = d_texts[p]

\* The response to chunk j is a success carrying m < k well-formed
\* translations.
ChunkShort(resp, k) ==
    /\ resp.kind = "ok"
    /\ Len(resp.items) < k
    /\ \A j \in 1..Len(resp.items) : resp.items[j] = "tr"

\* C9: when a successful response for a chunk of k texts holds only m < k
\* translations, positions 0..m-1 of the chunk receive the translations and
\* positions m..k-1 their own original texts, for every chunk, and the output
\* length is preserved.
C9_ShortResponseBackfilled ==
    d_pc = "done" =>
        \A j \in 1..Len(d_requests) :
            ChunkShort(d_resps[j], Len(d_requests[j])) =>
                /\ Len(d_results) = Len(d_texts)
                /\ \A q \in 1..Len(d_requests[j]) :
                       d_results[(j - 1) * d_bs + q] =
                           IF q <= Len(d_resps[j].items)
                           THEN Tr(d_requests[j][q])
                           ELSE d_requests[j][q]

\* The remote call of an item failed: it raised or gave no usable text.
GoogleFailed(outcome) == outcome \in {"exc", "none", "empty"}

\* C10: in _batch_googletrans, an item whose remote call failed gets its own
\* original text and nothing else changes: every sibling gets the result of
\* its own call, exactly one call was made per item, and the call returns
\* instead of raising.
C10_ItemFailureIsolated ==
    /\ g_pc # "raised"
    /\ g_pc = "done" =>
         /\ Len(g_results) = Len(g_texts)
         /\ \A i \in 1..Len(g_texts) :
              /\ g_called[i] = 1
              /\ g_results[i] =
                    IF GoogleFailed(g_futures[i].outcome)
                    THEN g_texts[i]
                    ELSE GoogleText(g_texts[i], g_futures[i].outcome)

\* Three items, the middle one's call raised; its siblings hold their
\* translations.
C10_Witness ==
    /\ g_pc = "done"
    /\ Len(g_texts) = 3
    /\ g_futures[2].outcome = "exc"
    /\ g_futures[1].outcome = "tr" /\ g_futures[3].outcome = "tr"
    /\ g_results = <<Tr(g_texts[1]), g_texts[2], Tr(g_texts[3])>>

\* C2: translate_batch returns a list as long as its input in which position
\* i holds the translation of xs[i] or xs[i] itself, never the result of
\* another input.
C2_BatchAligned ==
    last.op = "translate_batch" =>
        /\ Len(last.result) = Len(last.arg)
        /\ \A i \in 1..Len(last.arg) :
               last.result[i] \in {last.arg[i], Tr(last.arg[i])}

\* C3 as stated: a call of translate that follows an earlier call with the
\* same text returns what that call returned, without a remote call.
C3_SecondCallFromCache ==
    (last.op = "translate" /\ last.prev.source # "never") =>
        (last.result = last.prev.value /\ last.sent = <<>>)

\* C3, amended: when the earlier call of translate with the same text was
\* settled by a skip rule, the cache or a provider's result, the later call
\* returns the same value without a remote call.  (An earlier call in which
\* no provider gave a usable result caches nothing.)
C3_SettledCallRepeats ==
    (last.op = "translate"
        /\ last.prev.source \in {"skip", "cache", "primary", "secondary"}) =>
        (last.result = last.prev.value /\ last.sent = <<>>)

\* The second call for a text the primary provider translated in the first.
C3_Witness ==
    /\ last.op = "translate"
    /\ last.prev.source = "primary"
    /\ last.source = "cache"
    /\ last.result = Tr(last.arg)
    /\ last.sent = <<>>

\* The inputs C4 names: empty, whitespace only, shorter than 2 characters
\* after trimming, or digits and whitespace only.
ClaimedSkip(text) ==
    \/ text = <<>>
    \/ Strip(text) = <<>>
    \/ Len(Strip(text)) < 2
    \/ \A k \in 1..Len(text) : text[k] \in Digits \cup Whitespace

\* C4: for such an input translate returns the input, makes no remote call
\* and leaves the cache and the translation counter as they were.
C4_SkipIsFrame ==
    [][(last'.op = "translate" /\ ncalls' = ncalls + 1 /\ ClaimedSkip(last'.arg)) =>
          /\ last'.result = last'.arg
          /\ last'.sent = <<>>
          /\ cache' = cache
          /\ translation_count' = translation_count]_vars

NumericOnly(text) ==
    /\ \A k \in 1..Len(text) : text[k] \in Digits \cup Whitespace
    /\ \E k \in 1..Len(text) : text[k] \in Digits

\* C6: in translate_batch a numeric-only string is returned unchanged at its
\* position and is not among the items sent to a remote backend.
C6_NumericNeverSent ==
    last.op = "translate_batch" =>
        \A i \in 1..Len(last.arg) :
            NumericOnly(last.arg[i]) =>
                /\ last.result[i] = last.arg[i]
                /\ \A k \in 1..Len(last.sent) : last.sent[k] # last.arg[i]

\* C11: _batch_googletrans returns only after every item's future has
\* completed and been collected, and the returned list holds at index i the
\* value item i's own future produced, whatever the order of completion; no
\* slot is left at its initial ''.
C11_ReturnsOrderedAndComplete ==
    g_pc = "done" =>
        /\ Len(g_order) = Len(g_texts)
        /\ \A i \in 1..Len(g_texts) :
              /\ g_futures[i].state = "collected"
              /\ \E k \in 1..Len(g_order) : g_order[k] = i
              /\ g_futures[i].fut.idx = i - 1
              /\ g_results[i] = g_futures[i].fut.value
              /\ g_results[i] # <<>>

\* Three items whose futures completed in the order 3, 1, 2, with different
\* outcomes; the returned list is in submission order.
C11_Witness ==
    /\ g_pc = "done"
    /\ g_order = <<3, 1, 2>>
    /\ g_futures[1].outcome = "tr" /\ g_futures[2].outcome = "same"
    /\ g_futures[3].outcome = "tr"
    /\ g_results = <<Tr(g_texts[1]), g_texts[2], Tr(g_texts[3])>>

\* C12: when the Translator's answer for a unit equals the unit's combined
\* text, no run of the unit is changed: after the adapter has handled the
\* unit every run holds the text it had before, in the pptx and in the docx
\* adapter.
C12_NoOpLeavesRuns ==
    (u_pc = "done" /\ u_translated = Join(u_orig)) => u_runs = u_orig

\* A docx paragraph of the runs "a" and " a" whose answer is "a a": the
\* redistribution would move the space to the first run.
C12_Witness ==
    /\ u_pc = "done" /\ u_recorded
    /\ u_site = "body"
    /\ u_orig = << <<"a">>, <<" ", "a">> >>
    /\ u_translated = <<"a", " ", "a">>
    /\ DocxRedistribute(u_orig, u_orig, u_translated) # u_orig
    /\ u_runs = u_orig

\* C13: a unit is recorded, and its text handed to the Translator, only if
\* the paragraph has at least one run and its combined text, trimmed, has at
\* least two characters, at every harvest site of both adapters.
C13_RecordedOnlyIfTwoChars ==
    u_recorded => (u_orig # <<>> /\ Len(Strip(Join(u_orig))) >= 2)

\* The unit raises an error while it is processed.
UnitFails(unit) == unit.fate # "ok"

\* C14: when processing a content unit raises, the error is appended to
\* stats.errors, the remaining units are still processed and the document is
\* still saved; process_file re-raises only when the load or the save fails.
C14_UnitErrorsRecordedRunContinues ==
    /\ p_pc \notin {"raised:traversal"}
    /\ p_pc \in {"returned", "raised:save"} =>
         /\ p_saves = 1
         /\ \A k \in 1..Len(p_units) :
              /\ k \in p_visited
              /\ UnitFails(p_units[k]) =>
                    \E e \in 1..Len(p_stats.errors) : p_stats.errors[e].unit = k

\* C15: save is called at most once, and only when the traversal has gone
\* through every unit; when the load fails or an error leaves the traversal,
\* save is never called.
C15_SaveOnceAfterTraversal ==
    /\ p_saves <= 1
    /\ p_saves = 1 => (p_i = Len(p_units) /\ p_visited = 1..Len(p_units))
    /\ p_pc \in {"load", "traverse", "raised:load", "raised:traversal"} => p_saves = 0

\* A document whose first body paragraph raises, with units after it: the
\* error left the traversal and save was not called.
C15_Witness ==
    /\ p_kind = "docx"
    /\ p_pc = "raised:traversal"
    /\ Len(p_units) >= 2
    /\ p_units[1] = [cat |-> "body", fate |-> "raises"]
    /\ p_saves = 0

\* The number of group shapes in a list of shape trees.
RECURSIVE GroupCount(_)
GroupCount(shapes) ==
    IF shapes = <<>> THEN 0
    ELSE (IF Head(shapes).kind = "group"
          THEN 1 + GroupCount(Head(shapes).children) ELSE 0)
         + GroupCount(Tail(shapes))

\* The paths of the shapes with a paragraph to harvest, under prefix.
RECURSIVE HarvestPaths(_, _)
HarvestPaths(shapes, prefix) ==
    UNION {IF shapes[j].kind = "group"
           THEN HarvestPaths(shapes[j].children, Append(prefix, j))
           ELSE IF shapes[j].kind \in {"text", "table"}
                THEN {Append(prefix, j)} ELSE {}
           : j \in 1..Len(shapes)}

Occurrences(seq, x) == Cardinality({k \in 1..Len(seq) : seq[k] = x})

\* C16: on a slide with any nesting of groups, every group shape adds exactly
\* one to groups_traversed, and every paragraph under any number of groups
\* is harvested exactly once and submitted in exactly one batch.
C16_GroupsCountedTextsOnce ==
    s_pc = "done" =>
        /\ s_stats.groups_traversed = GroupCount(s_shapes)
        /\ \A path \in HarvestPaths(s_shapes, <<>>) :
              /\ Occurrences(s_locations, path) = 1
              /\ Len(s_batches) = 1
              /\ Occurrences(s_batches[1], path) = 1
        /\ \A k \in 1..Len(s_locations) :
              s_locations[k] \in HarvestPaths(s_shapes, <<>>) \cup {NotesPath}

\* A text shape under two ancestor groups: harvested once, two groups
\* counted.
C16_Witness ==
    /\ s_pc = "done"
    /\ s_shapes = << Shape("group", << Shape("group", << Shape("text", <<>>) >>) >>) >>
    /\ s_notes = "none"
    /\ s_stats.groups_traversed = 2
    /\ s_locations = << <<1, 1, 1>> >>
    /\ s_batches = << s_locations >>

\* C17: once a strategy's service has reported a fatal failure, no later
\* call contacts that strategy; the call in which the primary strategy
\* reports it sends the affected texts to the secondary strategy when a
\* DeepL key is configured; this for translate and for translate_batch.
C17_FatalStrategyAbandoned ==
    last.op # "none" =>
        /\ "googletrans" \in last.fatal_before => last.gcalls = 0
        /\ "deepl" \in last.fatal_before => last.dcalls = 0
        /\ ("googletrans" \in fatal \ last.fatal_before
               /\ deepl_api_key /\ "deepl" \notin fatal) => last.dcalls > 0

\* The request failed in a way that may pass: the call raised (a timeout) or
\* the status was not 200 (a rate limit).
TransientFailure(resp) == resp.kind \in {"exc", "status"}

\* C18: in _batch_deepl a chunk whose request failed transiently is
\* requested again before its items are returned as original text: when the
\* call returns, every failed request was followed by another request for
\* the same chunk, or was itself such a repetition.
C18_FailedChunkRequestedAgain ==
    d_pc = "done" =>
        \A j \in 1..Len(d_requests) :
            TransientFailure(d_resps[j]) =>
                \E k \in 1..Len(d_requests) :
                    k # j /\ d_requests[k] = d_requests[j]

\* C19: a single-text call of the parallel provider is retried after a
\* failure up to the fixed number of attempts before the item is given its
\* original text; for the items of a _batch_googletrans wave: an item whose
\* remote call raised has been called DefaultMaxRetries times when the wave
\* returns.
C19_BatchItemRetried ==
    g_pc = "done" =>
        \A i \in 1..Len(g_texts) :
            g_futures[i].outcome = "exc" => g_called[i] = DefaultMaxRetries

\* C20: every call of translate returns, having made at most max_retries
\* remote attempts on the primary provider and then at most max_retries on
\* the secondary one, whatever the providers answer.
C20_TranslateTerminates ==
    /\ [](/\ a_gcalls <= a_max
          /\ a_dcalls <= a_max
          /\ (a_pc = "primary" => a_dcalls = 0))
    /\ <>(a_pc = "returned")

\* Both providers failed at every attempt: max_retries calls to each, and
\* the text comes back.
C20_Witness ==
    /\ a_pc = "returned"
    /\ a_max = 2
    /\ a_gcalls = 2 /\ a_dcalls = 2
    /\ a_result = a_text

\* The cut the word-boundary rule commits as C21 states it: just after the
\* first space at or after the computed cut point within the next
\* WordWindow characters, the computed cut point when there is none.
FirstSpaceCut(translated, computed) ==
    LET hits == {k \in computed..(Min(computed + WordWindow, Len(translated)) - 1) :
                    translated[k + 1] = " "}
    IN  IF hits = {} THEN computed
        ELSE (CHOOSE k \in hits : \A j \in hits : k <= j) + 1

\* C21 as stated: the cut committed for a non-final span is never before the
\* computed proportional cut point; it is just after the first space found
\* from the computed cut point within the next 10 characters, and the
\* computed cut point itself when that window holds no space.
C21_CutAtFirstSpaceAhead ==
    r_pc = "done" =>
        \A k \in 1..Len(r_cuts) :
            /\ r_cuts[k].end >= r_cuts[k].pos + r_cuts[k].chars
            /\ r_cuts[k].end =
                   FirstSpaceCut(r_trans, r_cuts[k].pos + r_cuts[k].chars)

\* The spaces the code's search can return for a cut: after the running
\* cursor and before the computed cut point plus WordWindow.
SpacesBehindAndAhead(translated, pos, computed) ==
    {k \in (pos + 1)..(Min(computed + WordWindow, Len(translated)) - 1) :
        translated[k + 1] = " "}

\* C21 amended: when the computed cut point lies before the end of the
\* translated text and a space lies after the running cursor and before the
\* computed cut point plus 10, the cut committed is just after the last such
\* space, before or after the computed cut point; otherwise it is the
\* computed cut point.
C21_CutAtLastSpaceInReach ==
    r_pc = "done" =>
        \A k \in 1..Len(r_cuts) :
            LET computed == r_cuts[k].pos + r_cuts[k].chars
                spaces == SpacesBehindAndAhead(r_trans, r_cuts[k].pos, computed)
            IN  r_cuts[k].end =
                    IF computed < Len(r_trans) /\ spaces # {}
                    THEN (CHOOSE s \in spaces : \A j \in spaces : j <= s) + 1
                    ELSE computed

\* Two spaces ahead of the computed cut point: the cut is after the second.
\* The runs still join to the translated text.
C21_Witness ==
    /\ r_pc = "done"
    /\ Len(r_cuts) >= 1
    /\ LET computed == r_cuts[1].pos + r_cuts[1].chars
       IN  /\ computed < Len(r_trans)
           /\ Cardinality({k \in computed..(Len(r_trans) - 1) :
                              r_trans[k + 1] = " "}) = 2
           /\ r_cuts[1].end > FirstSpaceCut(r_trans, computed)
    /\ Join(r_runs) = r_trans

\* s is an integer nearest to n / d.
NearestTo(s, n, d) == 2 * s * d - 2 * n <= d /\ 2 * n - 2 * s * d <= d

\* C22 as stated: when the translated text has no space, every non-final
\* span receives, from the running cursor, a slice of
\* round(len(translated) * len(original_i) / total) characters, fewer only
\* when the translated text is exhausted.
C22_ShareRoundedToNearest ==
    (r_pc = "done" /\ NumSpaces(r_trans) = 0 /\ SumLen(r_orig) > 0) =>
        \A k \in 1..(Len(r_runs) - 1) :
            \E s \in 0..Len(r_trans) :
                /\ NearestTo(s, Len(r_trans) * Len(r_orig[k]), SumLen(r_orig))
                /\ r_runs[k] = Slice(r_trans, r_cuts[k].pos, r_cuts[k].pos + s)

\* C22 amended: when the translated text has no space, every non-final span
\* receives, from the running cursor, a slice of the proportional share
\* truncated to an integer, floor(len(translated) * len(original_i) / total)
\* for the lengths examined; the cursor advances by that share and the text
\* is never exhausted before the final span.
C22_ShareTruncated ==
    (r_pc = "done" /\ NumSpaces(r_trans) = 0 /\ SumLen(r_orig) > 0) =>
        \A k \in 1..(Len(r_runs) - 1) :
            LET share == (Len(r_trans) * Len(r_orig[k])) \div SumLen(r_orig)
            IN  /\ r_cuts[k].end = r_cuts[k].pos + share
                /\ r_cuts[k].end <= Len(r_trans)
                /\ r_runs[k] = Slice(r_trans, r_cuts[k].pos, r_cuts[k].pos + share)
                /\ Len(r_runs[k]) = share

\* Runs of 1 and 2 characters, a translation of 5 without a space: the first
\* run's share is 5/3, it receives 1 character and not 2.
C22_Witness ==
    /\ r_pc = "done"
    /\ r_orig = << <<"a">>, <<"a", "a">> >>
    /\ r_trans = <<"a", "a", "a", "a", "a">>
    /\ r_runs = << <<"a">>, <<"a", "a", "a", "a">> >>

\* the positions of the log that hold an event of the given kind
LogIndex(ev) == {k \in 1..Len(b_log) : b_log[k].ev = ev}

\* the paragraphs of the scope that pass the harvest test: its units
ScopeTextUnits == {k \in 1..Len(b_units) : b_units[k] = "text"}

\* the translate_batch call at position c of the log stands after the
\* harvest of every unit of the scope
AfterAllHarvests(c) ==
    \A u \in ScopeTextUnits :
        \E h \in LogIndex("harvest") : h < c /\ b_log[h].units = <<u>>

BatchedScope ==
    /\ Cardinality(LogIndex("translate_batch")) <= 1
    /\ LogIndex("translate") = {}
    /\ \A c \in LogIndex("translate_batch") : AfterAllHarvests(c)
    /\ \A r \in LogIndex("redistribute") :
           \E c \in LogIndex("translate_batch") : c < r
    /\ (b_pc = "done" /\ ScopeTextUnits # {})
           => Cardinality(LogIndex("translate_batch")) = 1

\* C23 (as stated): each adapter issues exactly one translate_batch call per
\* batch scope with at least one unit (a slide; a whole document), after all
\* units of the scope have been harvested and before any is redistributed.
C23_OneBatchCallPerScope ==
    b_pc # "idle" => BatchedScope

PerParagraphScope ==
    /\ LogIndex("translate_batch") = {}
    /\ \A k \in LogIndex("translate") :
           k > 1 /\ b_log[k - 1] = Event("harvest", b_log[k].units)
    /\ \A k \in LogIndex("redistribute") :
           k > 1 /\ b_log[k - 1] = Event("translate", b_log[k].units)
    /\ \A k \in LogIndex("harvest") :
           k < Len(b_log) => b_log[k + 1] = Event("translate", b_log[k].units)
    /\ b_pc = "done" =>
           \A u \in ScopeTextUnits :
               Cardinality({k \in LogIndex("translate") :
                                b_log[k].units = <<u>>}) = 1

\* C23 (amended): the presentation adapter issues exactly one
\* translate_batch call per slide with at least one unit, after all units of
\* the slide have been harvested and before any is redistributed; the
\* word-processor adapter issues no translate_batch call: it calls translate
\* once for each paragraph with non-blank text, right after harvesting that
\* paragraph and right before redistributing it, one paragraph at a time.
C23_PptxBatchesDocxTranslatesEach ==
    /\ b_kind = "pptx" => BatchedScope
    /\ b_kind = "docx" => PerParagraphScope

\* a document with two units is done: the first one was redistributed
\* before the second one was harvested
C23_Witness ==
    /\ b_kind = "docx" /\ b_pc = "done"
    /\ Cardinality(ScopeTextUnits) >= 2
    /\ \E r \in LogIndex("redistribute") :
           \E h \in LogIndex("harvest") : r < h

\* the positions of the latest call's argument list that hold the text t
PositionsOf(t) == {i \in DOMAIN last.arg : last.arg[i] = t}

BatchTexts == {last.arg[i] : i \in DOMAIN last.arg}

\* C24 (as stated): within one translate_batch call, a source string that
\* occurs at several positions and is not yet cached causes at most one
\* remote translation of that string, and all its positions receive the
\* same result.
C24_RepeatsTranslatedOnce ==
    last.op = "translate_batch" =>
        \A t \in BatchTexts :
            (~SkipBatch(t) /\ t \notin last.hits) =>
                /\ Occurrences(last.sent, t) <= 1
                /\ \A i, j \in PositionsOf(t) : last.result[i] = last.result[j]

\* C24 (amended): repeated strings are deduplicated only through the cache:
\* within one translate_batch call a string that is already cached is not
\* sent to a remote backend and all its positions receive the cached value,
\* whereas a string that is not skipped and not yet cached is sent, when a
\* backend is configured, once for every position it occupies.
C24_RepeatsSentPerPosition ==
    last.op = "translate_batch" =>
        \A t \in BatchTexts :
            /\ (SkipBatch(t) \/ t \in last.hits) => Occurrences(last.sent, t) = 0
            /\ (~SkipBatch(t) /\ t \in last.hits) =>
                   \A i \in PositionsOf(t) : last.result[i] = cache[t]
            /\ (~SkipBatch(t) /\ t \notin last.hits) =>
                   Occurrences(last.sent, t) =
                       IF (use_googletrans /\ gtrans) \/ deepl_api_key
                       THEN Occurrences(last.arg, t) ELSE 0

\* an uncached string at two positions of one call was sent twice, and its
\* two positions came back with different results
C24_Witness ==
    /\ last.op = "translate_batch"
    /\ last.arg = <<TAb, TAb>>
    /\ last.hits = {}
    /\ last.sent = <<TAb, TAb>>
    /\ last.result[1] # last.result[2]

\* C25: in the presentation adapter the translation at index i returned by
\* translate_batch is applied only to the spans of the i-th harvested unit,
\* each harvested unit is redistributed at most once, and no unit ever
\* receives the translation of another unit: the runs of a unit spell its
\* own text or the translation of its own text.
C25_UnitReceivesOwnTranslation ==
    w_pc # "idle" =>
        \A k \in DOMAIN w_orig :
            /\ w_redist[k] <= 1
            /\ Join(w_runs[k]) \in {Join(w_orig[k]), Tr(Join(w_orig[k]))}

\* C26: the cache only ever holds results of successful translations: an
\* item whose remote call failed and was degraded to its original text, in
\* translate or in translate_batch, on either provider, is not added to the
\* cache (so that a later request for it reaches a remote backend again).
C26_DegradedItemsNotCached ==
    \A t \in last.degraded : t \notin DOMAIN cache

====
